---- MODULE Spec2Model ----
(***************************************************************************)
(* A model of the promise-based HTTP server of this repository: the byte   *)
(* stream adapter (socketInit / socketRead / socketWrite), the growable    *)
(* buffer (bufPush / bufPop), the message framer (cutMessage and the       *)
(* parser below it), the body readers, the response encoder and the        *)
(* per-connection driver (serveClient / newConnection).                    *)
(*                                                                         *)
(* Bytes are integers 0..255, as in a Buffer.  The model keeps to 7-bit    *)
(* ASCII input, on which Buffer.toString() and Buffer.from(string) are the *)
(* identity on byte sequences.                                             *)
(***************************************************************************)
EXTENDS Integers, Sequences, FiniteSets, TLC

(***************************************************************************)
(* String literals of the source, as byte sequences.                       *)
(***************************************************************************)
\* '\r\n\r\n'
kHeaderEnd == <<13, 10, 13, 10>>
\* 'GET'
sGET == <<71, 69, 84>>
\* 'POST'
sPOST == <<80, 79, 83, 84>>
\* 'PUT'
sPUT == <<80, 85, 84>>
\* 'DELETE'
sDELETE == <<68, 69, 76, 69, 84, 69>>
\* 'HEAD'
sHEAD == <<72, 69, 65, 68>>
\* 'OPTIONS'
sOPTIONS == <<79, 80, 84, 73, 79, 78, 83>>
\* 'PATCH'
sPATCH == <<80, 65, 84, 67, 72>>
\* 'CONNECT'
sCONNECT == <<67, 79, 78, 78, 69, 67, 84>>
\* 'TRACE'
sTRACE == <<84, 82, 65, 67, 69>>
\* 'Content-Length'
sContentLength == <<67, 111, 110, 116, 101, 110, 116, 45, 76, 101, 110, 103, 116, 104>>
\* 'Transfer-Encoding'
sTransferEncoding == <<84, 114, 97, 110, 115, 102, 101, 114, 45, 69, 110, 99, 111, 100, 105, 110, 103>>
\* 'chunked'
sChunked == <<99, 104, 117, 110, 107, 101, 100>>
\* '1.0'
sVersion10 == <<49, 46, 48>>
\* '/echo'
sEcho == <<47, 101, 99, 104, 111>>
\* 'hello world.\n'
sHelloWorld == <<104, 101, 108, 108, 111, 32, 119, 111, 114, 108, 100, 46, 10>>
\* 'Server: my_first_http_server'
sServerHeader == <<83, 101, 114, 118, 101, 114, 58, 32, 109, 121, 95, 102, 105, 114, 115, 116, 95, 104, 116, 116, 112, 95, 115, 101, 114, 118, 101, 114>>
\* 'HTTP/1.1'
sHTTP11 == <<72, 84, 84, 80, 47, 49, 46, 49>>
\* 'Content-Length: '
sContentLengthColon == <<67, 111, 110, 116, 101, 110, 116, 45, 76, 101, 110, 103, 116, 104, 58, 32>>
\* 'OK'
sOK == <<79, 75>>
\* 'Created'
sCreated == <<67, 114, 101, 97, 116, 101, 100>>
\* 'No Content'
sNoContent == <<78, 111, 32, 67, 111, 110, 116, 101, 110, 116>>
\* 'Bad Request'
sBadRequest == <<66, 97, 100, 32, 82, 101, 113, 117, 101, 115, 116>>
\* 'Unauthorized'
sUnauthorized == <<85, 110, 97, 117, 116, 104, 111, 114, 105, 122, 101, 100>>
\* 'Forbidden'
sForbidden == <<70, 111, 114, 98, 105, 100, 100, 101, 110>>
\* 'Not Found'
sNotFound == <<78, 111, 116, 32, 70, 111, 117, 110, 100>>
\* 'Internal Server Error'
sInternalServerError == <<73, 110, 116, 101, 114, 110, 97, 108, 32, 83, 101, 114, 118, 101, 114, 32, 69, 114, 114, 111, 114>>
\* 'Not Implemented'
sNotImplemented == <<78, 111, 116, 32, 73, 109, 112, 108, 101, 109, 101, 110, 116, 101, 100>>
\* 'Bad Gateway'
sBadGateway == <<66, 97, 100, 32, 71, 97, 116, 101, 119, 97, 121>>
\* 'Service Unavailable'
sServiceUnavailable == <<83, 101, 114, 118, 105, 99, 101, 32, 85, 110, 97, 118, 97, 105, 108, 97, 98, 108, 101>>
\* 'Unknown Status'
sUnknownStatus == <<85, 110, 107, 110, 111, 119, 110, 32, 83, 116, 97, 116, 117, 115>>
\* 'Malformed request line'
mMalformedRequestLine == <<77, 97, 108, 102, 111, 114, 109, 101, 100, 32, 114, 101, 113, 117, 101, 115, 116, 32, 108, 105, 110, 101>>
\* 'Invalid HTTP method'
mInvalidMethod == <<73, 110, 118, 97, 108, 105, 100, 32, 72, 84, 84, 80, 32, 109, 101, 116, 104, 111, 100>>
\* 'bad field'
mBadField == <<98, 97, 100, 32, 102, 105, 101, 108, 100>>
\* 'header is too large'
mHeaderTooLarge == <<104, 101, 97, 100, 101, 114, 32, 105, 115, 32, 116, 111, 111, 32, 108, 97, 114, 103, 101>>
\* 'bad Content-Length.'
mBadContentLength == <<98, 97, 100, 32, 67, 111, 110, 116, 101, 110, 116, 45, 76, 101, 110, 103, 116, 104, 46>>
\* 'HTTP body not allowed.'
mBodyNotAllowed == <<72, 84, 84, 80, 32, 98, 111, 100, 121, 32, 110, 111, 116, 32, 97, 108, 108, 111, 119, 101, 100, 46>>
\* 'TODO'
mTODO == <<84, 79, 68, 79>>
\* 'Unexpected EOF.'
mUnexpectedEOF == <<85, 110, 101, 120, 112, 101, 99, 116, 101, 100, 32, 69, 79, 70, 46>>
\* 'Unexpected EOF from HTTP body'
mUnexpectedEOFBody == <<85, 110, 101, 120, 112, 101, 99, 116, 101, 100, 32, 69, 79, 70, 32, 102, 114, 111, 109, 32, 72, 84, 84, 80, 32, 98, 111, 100, 121>>
\* 'TODO: chunked encoding'
mTODOChunked == <<84, 79, 68, 79, 58, 32, 99, 104, 117, 110, 107, 101, 100, 32, 101, 110, 99, 111, 100, 105, 110, 103>>

\* '\r' (0x0d) and '\n' (0x0a), as compared in splitLines
CR == 13
LF == 10
\* ' ', the separator of String.split(" ") in parseRequestLine
SP == 32
\* ':', the separator searched by validateHeader and fieldGet
COLON == 58

(***************************************************************************)
(* Buffer and String helpers.                                              *)
(***************************************************************************)
Min(a, b) == IF a < b THEN a ELSE b
Max(a, b) == IF a > b THEN a ELSE b

\* Buffer.slice(a, b) / subarray(a, b): 0-based, half-open
Slice(s, a, b) == SubSeq(s, a + 1, b)

\* Buffer.indexOf(pat): the least 0-based offset at which pat occurs, or -1
IndexOf(s, pat) ==
  LET hits == {i \in 0..(Len(s) - Len(pat)) : SubSeq(s, i + 1, i + Len(pat)) = pat}
  IN IF hits = {} THEN -1 ELSE CHOOSE i \in hits : \A j \in hits : i <= j

\* the ASCII white space removed by String.prototype.trim
IsSpace(c) == c \in {9, 10, 11, 12, 13, 32}

RECURSIVE TrimLeft(_)
TrimLeft(s) == IF s # <<>> /\ IsSpace(Head(s)) THEN TrimLeft(Tail(s)) ELSE s

RECURSIVE TrimRight(_)
TrimRight(s) ==
  IF s # <<>> /\ IsSpace(s[Len(s)]) THEN TrimRight(SubSeq(s, 1, Len(s) - 1)) ELSE s

Trim(s) == TrimRight(TrimLeft(s))

\* String.prototype.toLowerCase on ASCII
ToLower(s) == [i \in 1..Len(s) |-> IF s[i] \in 65..90 THEN s[i] + 32 ELSE s[i]]

\* String.prototype.split(" "): every single space separates two parts
RECURSIVE SplitSpace(_)
SplitSpace(s) ==
  LET i == IndexOf(s, <<SP>>)
  IN IF i < 0 THEN <<s>>
     ELSE <<Slice(s, 0, i)>> \o SplitSpace(Slice(s, i + 1, Len(s)))

\* the decimal digits of a non-negative number, as in a template literal
RECURSIVE DecStr(_)
DecStr(n) == IF n < 10 THEN <<48 + n>> ELSE DecStr(n \div 10) \o <<48 + (n % 10)>>

\* The value of a thrown exception (or none).  kind "http" is an HTTPError
\* with its code; kind "plain" is a bare Error thrown by the server's own
\* code; kind "transport" is an error object handed over by the socket.
NoExc == [kind |-> "none", code |-> 0, msg |-> <<>>, e |-> "none"]
HTTPError(code, message) == [kind |-> "http", code |-> code, msg |-> message, e |-> "none"]
PlainError(message) == [kind |-> "plain", code |-> 0, msg |-> message, e |-> "none"]
TransportError(e) == [kind |-> "transport", code |-> 0, msg |-> <<>>, e |-> e]

(***************************************************************************)
(* Growable buffer.                                                        *)
(***************************************************************************)
\* Buffer.alloc(n): n zero bytes
Alloc(n) == [i \in 1..n |-> 0]

\* the bytes the buffer logically holds: data[0 .. length)
Content(buf) == SubSeq(buf.data, 1, buf.length)

\* mutant: the buffer grows to the length it needs, without doubling
GrowCap_Exact(cap, newLen) == newLen

\* the least cap * 2^k that is >= newLen
RECURSIVE GrowCap(_, _)
GrowCap(cap, newLen) == IF cap < newLen THEN GrowCap(cap * 2, newLen) ELSE cap

\* the minimum capacity bufPush grows to
kMinCap == 32

\* mutant: a grown buffer starts empty (buf.data.copy(grown) is left out)
bufPush_NoCopy(buf, data) ==
  LET newLen == buf.length + Len(data)
      grown == IF Len(buf.data) < newLen
               THEN Alloc(GrowCap(Max(Len(buf.data), kMinCap), newLen))
               ELSE buf.data
  IN [data |-> [i \in 1..Len(grown) |->
                  IF i > buf.length /\ i <= newLen THEN data[i - buf.length] ELSE grown[i]],
      length |-> newLen]

bufPush(buf, data) ==
  LET newLen == buf.length + Len(data)
      grown == IF Len(buf.data) < newLen
               THEN LET cap == GrowCap(Max(Len(buf.data), kMinCap), newLen)
                    IN [i \in 1..cap |-> IF i <= Len(buf.data) THEN buf.data[i] ELSE 0]
               ELSE buf.data
  IN [data |-> [i \in 1..Len(grown) |->
                  IF i > buf.length /\ i <= newLen THEN data[i - buf.length] ELSE grown[i]],
      length |-> newLen]

\* copyWithin(0, len, buf.length) moves data[len .. length) to the front and
\* leaves the other bytes where they are
bufPop(buf, len) ==
  [data |-> [i \in 1..Len(buf.data) |->
               IF i <= buf.length - len THEN buf.data[i + len] ELSE buf.data[i]],
   length |-> buf.length - len]

EmptyBuf == [data |-> <<>>, length |-> 0]

(***************************************************************************)
(* Message framer: splitLines, parseRequestLine, validateHeader,           *)
(* parseHTTPReq, cutMessage.                                               *)
(***************************************************************************)
\* the loop of splitLines from its 0-based index i on, start being the
\* offset of the line in progress: the loop passes every byte up to the next
\* '\r\n', ends the line there and goes on after it
RECURSIVE SplitLinesFrom(_, _, _, _)
SplitLinesFrom(data, i, start, lines) ==
  LET crlf == {j \in i..(Len(data) - 2) : data[j + 1] = CR /\ data[j + 2] = LF}
  IN IF crlf = {}
     THEN IF start < Len(data) THEN Append(lines, Slice(data, start, Len(data))) ELSE lines
     ELSE LET j == CHOOSE k \in crlf : \A l \in crlf : k <= l
          IN SplitLinesFrom(data, j + 2, j + 2, Append(lines, Slice(data, start, j)))

splitLines(data) == SplitLinesFrom(data, 0, 0, <<>>)

validMethods == {sGET, sPOST, sPUT, sDELETE, sHEAD, sOPTIONS, sPATCH, sCONNECT, sTRACE}

NoReq == [method |-> <<>>, uri |-> <<>>, version |-> <<>>, headers |-> <<>>]

\* mutant: parseRequestLine without the test of the method
RequestLineExc_AnyMethod(line) ==
  IF Len(SplitSpace(line)) # 3 THEN HTTPError(400, mMalformedRequestLine) ELSE NoExc

\* parseRequestLine: the exception it throws, or none
RequestLineExc(line) ==
  LET parts == SplitSpace(line)
  IN IF Len(parts) # 3 THEN HTTPError(400, mMalformedRequestLine)
     ELSE IF parts[1] \notin validMethods THEN HTTPError(400, mInvalidMethod)
     ELSE NoExc

\* the characters of the RFC 7230 token class tested by validateHeader
IsTokenChar(c) ==
  \/ c \in {33, 35, 36, 37, 38, 39, 42, 43, 45, 46, 94, 95, 96, 124, 126}
  \/ c \in 48..57
  \/ c \in 65..90
  \/ c \in 97..122

validateHeader(header) ==
  LET colonIndex == IndexOf(header, <<COLON>>)
      name == Trim(Slice(header, 0, colonIndex))
      value == Trim(Slice(header, colonIndex + 1, Len(header)))
  IN /\ colonIndex # -1
     /\ name # <<>>
     /\ value # <<>>
     /\ \A i \in 1..Len(name) : IsTokenChar(name[i])

\* parseHTTPReq: [exc, req]; req is the parsed request when exc is none
parseHTTPReq(data) ==
  LET lines == splitLines(data)
      rl == RequestLineExc(lines[1])
      parts == SplitSpace(lines[1])
      headers == SubSeq(lines, 2, Len(lines) - 1)
  IN IF rl.kind # "none" THEN [exc |-> rl, req |-> NoReq]
     ELSE IF \E i \in 1..Len(headers) : ~validateHeader(headers[i])
          THEN [exc |-> HTTPError(400, mBadField), req |-> NoReq]
          ELSE [exc |-> NoExc,
                req |-> [method |-> parts[1], uri |-> parts[2], version |-> parts[3],
                         headers |-> headers]]

\* the maximum length of an HTTP header
kMaxHeaderLen == 8192

\* cutMessage: tag "null" (need more data), "msg" (req parsed, removed from
\* the buffer) or "throw" (exc); buf is the buffer afterwards
cutMessage(buf) ==
  LET idx == IndexOf(Content(buf), kHeaderEnd)
  IN IF idx < 0
     THEN IF buf.length >= kMaxHeaderLen
          THEN [tag |-> "throw", req |-> NoReq, buf |-> buf,
                exc |-> HTTPError(413, mHeaderTooLarge)]
          ELSE [tag |-> "null", req |-> NoReq, buf |-> buf, exc |-> NoExc]
     ELSE LET p == parseHTTPReq(Slice(buf.data, 0, idx + 4))
          IN IF p.exc.kind # "none"
             THEN [tag |-> "throw", req |-> NoReq, buf |-> buf, exc |-> p.exc]
             ELSE [tag |-> "msg", req |-> p.req, buf |-> bufPop(buf, idx + 4), exc |-> NoExc]

(***************************************************************************)
(* Header lookup and body readers.                                         *)
(***************************************************************************)
\* fieldGet: the trimmed value of the first header line whose trimmed,
\* lower-cased name is the lower-cased key; found is FALSE for null
RECURSIVE fieldGet(_, _)
fieldGet(headers, key) ==
  IF headers = <<>> THEN [found |-> FALSE, val |-> <<>>]
  ELSE LET header == Head(headers)
           index == IndexOf(header, <<COLON>>)
       IN IF index # -1 /\ ToLower(Trim(Slice(header, 0, index))) = ToLower(key)
          THEN [found |-> TRUE, val |-> Trim(Slice(header, index + 1, Len(header)))]
          ELSE fieldGet(Tail(headers), key)

\* the number of leading decimal digits of s
RECURSIVE DigitCount(_)
DigitCount(s) == IF s # <<>> /\ Head(s) \in 48..57 THEN 1 + DigitCount(Tail(s)) ELSE 0

RECURSIVE DigitsValue(_, _)
DigitsValue(s, acc) ==
  IF s = <<>> THEN acc ELSE DigitsValue(Tail(s), acc * 10 + (Head(s) - 48))

\* parseDec = parseInt(input, 10): leading white space, an optional sign, then
\* the longest prefix of digits; NaN when there is no digit
parseDec(input) ==
  LET t == TrimLeft(input)
      signed == t # <<>> /\ Head(t) \in {43, 45}
      body == IF signed THEN Tail(t) ELSE t
      n == DigitCount(body)
      v == DigitsValue(SubSeq(body, 1, n), 0)
  IN IF n = 0 THEN [nan |-> TRUE, val |-> 0]
     ELSE [nan |-> FALSE, val |-> IF signed /\ Head(t) = 45 THEN 0 - v ELSE v]

\* A body reader.  kind "conn" is readerFromConnLength (remain is its
\* closure variable), kind "mem" is readerFromMemory (done is its closure
\* variable, data its payload); length is the declared length.
NoReader == [kind |-> "none", length |-> 0, remain |-> 0, data |-> <<>>, done |-> FALSE]
readerFromConnLength(remain) ==
  [kind |-> "conn", length |-> remain, remain |-> remain, data |-> <<>>, done |-> FALSE]
readerFromMemory(data) ==
  [kind |-> "mem", length |-> Len(data), remain |-> 0, data |-> data, done |-> FALSE]

\* readerFromReq: [exc, reader]
\* mutant: readerFromReq without the check of line 418
readerFromReq_BodyIgnored(req) ==
  LET contentLen == fieldGet(req.headers, sContentLength)
      parsed == IF contentLen.found THEN parseDec(contentLen.val)
                ELSE [nan |-> FALSE, val |-> -1]
      bodyAllowed == ~(req.method = sGET \/ req.method = sHEAD)
      bodyLen == IF ~bodyAllowed THEN 0 ELSE parsed.val
  IN IF parsed.nan THEN [exc |-> HTTPError(400, mBadContentLength), reader |-> NoReader]
     ELSE IF bodyLen >= 0
     THEN [exc |-> NoExc, reader |-> readerFromConnLength(bodyLen)]
     ELSE [exc |-> HTTPError(501, mTODO), reader |-> NoReader]

\* mutant: readerFromReq reading a missing length as an empty body
readerFromReq_NoLengthEmpty(req) ==
  LET contentLen == fieldGet(req.headers, sContentLength)
      parsed == IF contentLen.found THEN parseDec(contentLen.val)
                ELSE [nan |-> FALSE, val |-> -1]
      bodyAllowed == ~(req.method = sGET \/ req.method = sHEAD)
      te == fieldGet(req.headers, sTransferEncoding)
      chunked == te.found /\ te.val = sChunked
      bodyLen == IF ~bodyAllowed THEN 0 ELSE parsed.val
  IN IF parsed.nan THEN [exc |-> HTTPError(400, mBadContentLength), reader |-> NoReader]
     ELSE IF ~bodyAllowed /\ (parsed.val > 0 \/ chunked)
     THEN [exc |-> HTTPError(400, mBodyNotAllowed), reader |-> NoReader]
     ELSE [exc |-> NoExc, reader |-> readerFromConnLength(Max(bodyLen, 0))]

readerFromReq(req) ==
  LET contentLen == fieldGet(req.headers, sContentLength)
      parsed == IF contentLen.found THEN parseDec(contentLen.val)
                ELSE [nan |-> FALSE, val |-> -1]
      bodyAllowed == ~(req.method = sGET \/ req.method = sHEAD)
      te == fieldGet(req.headers, sTransferEncoding)
      chunked == te.found /\ te.val = sChunked
      bodyLen == IF ~bodyAllowed THEN 0 ELSE parsed.val
  IN IF parsed.nan THEN [exc |-> HTTPError(400, mBadContentLength), reader |-> NoReader]
     ELSE IF ~bodyAllowed /\ (parsed.val > 0 \/ chunked)
     THEN [exc |-> HTTPError(400, mBodyNotAllowed), reader |-> NoReader]
     ELSE IF bodyLen >= 0
     THEN [exc |-> NoExc, reader |-> readerFromConnLength(bodyLen)]
     ELSE [exc |-> HTTPError(501, mTODO), reader |-> NoReader]

(***************************************************************************)
(* Response encoder.                                                       *)
(***************************************************************************)
getReasonPhrase(statusCode) ==
  CASE statusCode = 200 -> sOK
    [] statusCode = 201 -> sCreated
    [] statusCode = 204 -> sNoContent
    [] statusCode = 400 -> sBadRequest
    [] statusCode = 401 -> sUnauthorized
    [] statusCode = 403 -> sForbidden
    [] statusCode = 404 -> sNotFound
    [] statusCode = 500 -> sInternalServerError
    [] statusCode = 501 -> sNotImplemented
    [] statusCode = 502 -> sBadGateway
    [] statusCode = 503 -> sServiceUnavailable
    [] OTHER -> sUnknownStatus

RECURSIVE JoinLines(_)
JoinLines(headers) ==
  IF headers = <<>> THEN <<>> ELSE Head(headers) \o <<CR, LF>> \o JoinLines(Tail(headers))

\* encodeHTTPResp: status line, header lines, blank line
encodeHTTPResp(code, headers) ==
  sHTTP11 \o <<SP>> \o DecStr(code) \o <<SP>> \o getReasonPhrase(code) \o <<CR, LF>>
    \o JoinLines(headers) \o <<CR, LF>>

\* mutant: writeHTTPResp declares one byte more than the body's length
ContentLengthHeader_Plus(n) == sContentLengthColon \o DecStr(n + 1)
\* the header line writeHTTPResp appends
ContentLengthHeader(n) == sContentLengthColon \o DecStr(n)

(***************************************************************************)
(* Bounds of the model and the peers' byte streams.                        *)
(***************************************************************************)
\* the error objects a socket may report
Errors == {"E1", "E2"}
\* how many 'error' events one socket emits at most
MaxErrEvents == 2
\* how many read promises may be outstanding or unclaimed at once
MaxProm == 2
\* the largest number of bytes one 'data' event delivers, short of the
\* whole rest of the stream
MaxChunk == 2

\* 'POST /echo 1.1\r\nContent-Length: 2\r\n\r\nhi'
reqEcho == <<80, 79, 83, 84, 32, 47, 101, 99, 104, 111, 32, 49, 46, 49, 13, 10, 67, 111, 110, 116, 101, 110, 116, 45, 76, 101, 110, 103, 116, 104, 58, 32, 50, 13, 10, 13, 10, 104, 105>>
\* 'PUT /up 1.1\r\nContent-Length: 2\r\n\r\nhi'
reqPut == <<80, 85, 84, 32, 47, 117, 112, 32, 49, 46, 49, 13, 10, 67, 111, 110, 116, 101, 110, 116, 45, 76, 101, 110, 103, 116, 104, 58, 32, 50, 13, 10, 13, 10, 104, 105>>
\* 'GET / 1.0\r\n\r\n'
reqGet10 == <<71, 69, 84, 32, 47, 32, 49, 46, 48, 13, 10, 13, 10>>
\* 'GET /a 1.1\r\n\r\n'
reqGet11 == <<71, 69, 84, 32, 47, 97, 32, 49, 46, 49, 13, 10, 13, 10>>
\* 'BAD / 1.1\r\n\r\n'
reqBadMethod == <<66, 65, 68, 32, 47, 32, 49, 46, 49, 13, 10, 13, 10>>
\* 'POST / 1.1\r\n\r\n'
reqNoLength == <<80, 79, 83, 84, 32, 47, 32, 49, 46, 49, 13, 10, 13, 10>>

\* the byte streams a peer may send on one connection (it may also stop
\* after any prefix: see OnEnd)
Wires ==
  { reqEcho \o reqGet10 \o reqGet11,
    reqPut \o reqGet11 \o reqBadMethod,
    reqGet11 \o reqNoLength,
    reqBadMethod }

\* how far from the 8192nd byte the first read of an oversized stream may
\* end; its later reads bring up to MaxChunk bytes, or all the rest
CutWindow == 2

\* 'GET /a 1.1\r\nX: '
sLongStart == <<71, 69, 84, 32, 47, 97, 32, 49, 46, 49, 13, 10, 88, 58, 32>>
\* a request whose header block is exactly kMaxHeaderLen bytes long before
\* its terminator: 'GET /a 1.1\r\nX: aaa...a\r\n\r\n'
reqLong ==
  sLongStart \o [i \in 1..(kMaxHeaderLen - Len(sLongStart)) |-> 97] \o kHeaderEnd

\* the byte streams with an oversized header
LongWires == { reqLong \o reqGet10 }

\* the byte streams of peers that send such requests, some after a request
\* that is served
ReqWires ==
  { \* 'GET /a 1.1\r\nContent-Length: 2\r\n\r\nhi', after an echoed request
    reqEcho \o <<71, 69, 84, 32, 47, 97, 32, 49, 46, 49, 13, 10, 67, 111, 110, 116, 101, 110, 116, 45, 76, 101, 110, 103, 116, 104, 58, 32, 50, 13, 10, 13, 10, 104, 105>>,
    \* 'HEAD /a 1.1\r\nTransfer-Encoding: chunked\r\n\r\n', after a served PUT
    reqPut \o <<72, 69, 65, 68, 32, 47, 97, 32, 49, 46, 49, 13, 10, 84, 114, 97, 110, 115, 102, 101, 114, 45, 69, 110, 99, 111, 100, 105, 110, 103, 58, 32, 99, 104, 117, 110, 107, 101, 100, 13, 10, 13, 10>>,
    \* 'GET /a 1.1\r\nContent-Length: 0\r\n\r\n', then
    \* 'POST /a 1.1\r\nTransfer-Encoding: chunked\r\n\r\n'
    <<71, 69, 84, 32, 47, 97, 32, 49, 46, 49, 13, 10, 67, 111, 110, 116, 101, 110, 116, 45, 76, 101, 110, 103, 116, 104, 58, 32, 48, 13, 10, 13, 10>>
      \o <<80, 79, 83, 84, 32, 47, 97, 32, 49, 46, 49, 13, 10, 84, 114, 97, 110, 115, 102, 101, 114, 45, 69, 110, 99, 111, 100, 105, 110, 103, 58, 32, 99, 104, 117, 110, 107, 101, 100, 13, 10, 13, 10>>,
    \* 'POST /a 1.1\r\nContent-Length: x\r\n\r\n', after a served GET
    reqGet11 \o <<80, 79, 83, 84, 32, 47, 97, 32, 49, 46, 49, 13, 10, 67, 111, 110, 116, 101, 110, 116, 45, 76, 101, 110, 103, 116, 104, 58, 32, 120, 13, 10, 13, 10>>,
    \* 'POST /a 1.1\r\nContent-Length: -1\r\n\r\n'
    <<80, 79, 83, 84, 32, 47, 97, 32, 49, 46, 49, 13, 10, 67, 111, 110, 116, 101, 110, 116, 45, 76, 101, 110, 103, 116, 104, 58, 32, 45, 49, 13, 10, 13, 10>>,
    reqNoLength,
    \* 'GET /\r\n\r\n', after a served GET
    reqGet11 \o <<71, 69, 84, 32, 47, 13, 10, 13, 10>>,
    \* 'GET  / 1.1\r\n\r\n'
    <<71, 69, 84, 32, 32, 47, 32, 49, 46, 49, 13, 10, 13, 10>>,
    \* 'GET / 1.1 x\r\n\r\n'
    <<71, 69, 84, 32, 47, 32, 49, 46, 49, 32, 120, 13, 10, 13, 10>>,
    \* 'get / 1.1\r\n\r\n'
    <<103, 101, 116, 32, 47, 32, 49, 46, 49, 13, 10, 13, 10>> }

\* how many bytes are appended in all in the buffer-only specification
MaxBufBytes == 70
\* how many bytes a small bufPush appends and a small bufPop drops there
BufStep == 9

\* the bytes appended in the buffer-only specification: all different, none 0
BufWires == { [i \in 1..MaxBufBytes |-> i] }

\* the byte streams of the adapter-only specification
AdapterWires == { <<104, 105, 33>> }

(***************************************************************************)
(* State.                                                                  *)
(***************************************************************************)
VARIABLES
  \* TCPConn
  err,          \* conn.err: "none" for null, else the Error
  ended,        \* conn.ended
  reader,       \* conn.reader: 0 for null, else the promise whose callbacks it holds
  \* the net.Socket and its peer
  flowing,      \* FALSE while the socket is paused
  destroyed,    \* socket.destroy() was called
  crashed,      \* an event handler threw: the process is gone
  wire,         \* the bytes the peer sends on this connection
  sentN,        \* how many of them 'data' events have delivered
  endEmitted,   \* the 'end' event was emitted
  nErr,         \* the number of 'error' events emitted
  lastErr,      \* the Error of the latest 'error' event
  wr,           \* the state of the socket.write in progress
  wrErr,        \* the Error its callback got
  out,          \* the chunks handed to socket.write, in order
  \* promises returned by socketRead
  prom,
  \* serveClient / newConnection
  pc, buf, msg, reqBody, res, memBody, chunk, exc, inCatch, swallowed,
  \* observations of the run
  readCalls,    \* socketRead calls so far, modulo 2
  lastId,       \* the promise of the latest socketRead call
  doubleRead,   \* console.assert(!conn.reader) failed in some socketRead
  emptyReads,   \* how many socketRead promises resolved with an empty chunk (up to 2)
  dataSinceRead,\* 'data' events since the latest socketRead that resumed the socket (up to 2)
  versions,     \* the versions of the requests framed so far
  bodyEnd,      \* the stream offset just after the declared body of the latest request
  errResponses, \* how many error responses newConnection started
  outAtCatch,   \* Len(out) when newConnection's catch block was entered
  served,       \* how many times serveClient's writeHTTPResp returned
  respAt,       \* Len(out) when the latest writeHTTPResp was entered
  ref,          \* the byte sequence the buffer has to hold (buffer-only specification)
  \* the promise-based listener
  listener,     \* the TCPListener: connectionQueue and waitingAccepts
  accepted,     \* the promises soAccept returned, by call: 0 pending, else the connection
  arrived,      \* the number of 'connection' events so far
  handed,       \* the pairs <<soAccept call, connection>>, in the order of the resolves
  hcAwait,      \* the soAccept call handleConnections awaits: 0 before its first call
  clients,      \* the connections handleConnections passed to serveClient, in order
  \* the line-echo server
  endCalled     \* its serveClient has called socket.end()

connVars == <<err, ended, reader>>
sockVars == <<flowing, destroyed, crashed, wire, sentN, endEmitted, nErr, lastErr>>
writeVars == <<wr, wrErr, out>>
drvVars == <<pc, buf, msg, reqBody, res, memBody, chunk, exc, inCatch, swallowed>>
obsVars == <<readCalls, lastId, doubleRead, emptyReads, dataSinceRead, versions, bodyEnd,
             errResponses, outAtCatch, served, respAt, ref>>
lsnVars == <<listener, accepted, arrived, handed, hcAwait, clients>>
serveVars == <<connVars, sockVars, writeVars, prom, drvVars, obsVars>>
echoVars == <<endCalled>>
vars == <<serveVars, lsnVars, echoVars>>

FreeProm == [st |-> "free", d |-> <<>>, e |-> "none", n |-> 0]
NoRes == [code |-> 0, headers |-> <<>>, bodyIs |-> "none"]

InitCommon ==
  \* socketInit
  /\ err = "none" /\ ended = FALSE /\ reader = 0
  \* pauseOnConnect
  /\ flowing = FALSE
  /\ destroyed = FALSE /\ crashed = FALSE
  /\ sentN = 0 /\ endEmitted = FALSE /\ nErr = 0 /\ lastErr = "none"
  /\ wr = "none" /\ wrErr = "none" /\ out = <<>>
  /\ prom = [i \in 1..MaxProm |-> FreeProm]
  /\ buf = EmptyBuf /\ msg = NoReq /\ reqBody = NoReader /\ res = NoRes
  /\ memBody = NoReader /\ chunk = <<>> /\ exc = NoExc /\ inCatch = FALSE
  /\ swallowed = NoExc
  /\ readCalls = 0 /\ lastId = 0 /\ doubleRead = FALSE /\ emptyReads = 0
  /\ dataSinceRead = 0 /\ versions = <<>> /\ bodyEnd = 0 /\ errResponses = 0
  /\ outAtCatch = 0 /\ served = 0 /\ respAt = 0 /\ ref = <<>>
  \* socketListen
  /\ listener = [connectionQueue |-> <<>>, waitingAccepts |-> <<>>]
  /\ accepted = <<>> /\ arrived = 0 /\ handed = <<>> /\ hcAwait = 0 /\ clients = <<>>
  /\ endCalled = FALSE

\* newConnection has called socketInit and enters serveClient
Init == InitCommon /\ wire \in Wires /\ pc = "cut"

\* the adapter alone, driven by an arbitrary caller
InitAdapter == InitCommon /\ wire \in AdapterWires /\ pc = "caller"

(***************************************************************************)
(* Byte stream adapter.                                                    *)
(***************************************************************************)
\* a promise's resolve / reject callbacks: only the first call settles it
Resolve(p, data) ==
  IF p.st = "pending" THEN [st |-> "resolved", d |-> data, e |-> "none", n |-> 1]
  ELSE [p EXCEPT !.n = Min(2, @ + 1)]
Reject(p, e) ==
  IF p.st = "pending" THEN [st |-> "rejected", d |-> <<>>, e |-> e, n |-> 1]
  ELSE [p EXCEPT !.n = Min(2, @ + 1)]
Pending == [st |-> "pending", d |-> <<>>, e |-> "none", n |-> 0]

\* mutant: the 'data' handler forgets conn.reader = null
ReaderAfterData_Kept == reader
\* conn.reader after the 'data' handler has fulfilled the read (line 103)
ReaderAfterData == 0
\* mutant: the 'end' handler forgets conn.reader = null
ReaderAfterEnd_Kept == reader
\* conn.reader after the 'end' handler has fulfilled the read (line 113)
ReaderAfterEnd == 0
\* mutant: the 'error' handler forgets conn.reader = null
ReaderAfterError_Kept == reader
\* conn.reader after the 'error' handler has failed the read (line 123)
ReaderAfterError == 0
\* mutant: the 'data' handler forgets conn.socket.pause()
FlowingAfterData_NoPause == flowing
\* whether the socket flows once the 'data' handler has run (pause, line 99)
FlowingAfterData == FALSE
\* what the 'error' handler stores in conn.err (line 119)
ErrAfterError(e) == e

\* mutant: socketRead tests conn.ended before conn.err
SocketRead_EndedFirst(id) ==
  /\ doubleRead' = (doubleRead \/ reader # 0)
  /\ readCalls' = 1 - readCalls
  /\ lastId' = id
  /\ IF ended
     THEN /\ prom' = [prom EXCEPT ![id] = Resolve(Pending, <<>>)]
          /\ emptyReads' = Min(2, emptyReads + 1)
          /\ UNCHANGED <<reader, flowing, dataSinceRead>>
     ELSE IF err # "none"
     THEN /\ prom' = [prom EXCEPT ![id] = Reject(Pending, err)]
          /\ UNCHANGED <<reader, flowing, emptyReads, dataSinceRead>>
     ELSE /\ prom' = [prom EXCEPT ![id] = Pending]
          /\ reader' = id
          /\ flowing' = TRUE
          /\ dataSinceRead' = 0
          /\ UNCHANGED emptyReads

\* mutant: socketRead does not test conn.ended
SocketRead_NoEnded(id) ==
  /\ doubleRead' = (doubleRead \/ reader # 0)
  /\ readCalls' = 1 - readCalls
  /\ lastId' = id
  /\ IF err # "none"
     THEN /\ prom' = [prom EXCEPT ![id] = Reject(Pending, err)]
          /\ UNCHANGED <<reader, flowing, emptyReads, dataSinceRead>>
     ELSE /\ prom' = [prom EXCEPT ![id] = Pending]
          /\ reader' = id
          /\ flowing' = TRUE
          /\ dataSinceRead' = 0
          /\ UNCHANGED emptyReads

\* socketRead(conn), returning promise id.  The executor runs synchronously.
SocketRead(id) ==
  /\ doubleRead' = (doubleRead \/ reader # 0)
  /\ readCalls' = 1 - readCalls
  /\ lastId' = id
  /\ IF err # "none"
     THEN /\ prom' = [prom EXCEPT ![id] = Reject(Pending, err)]
          /\ UNCHANGED <<reader, flowing, emptyReads, dataSinceRead>>
     ELSE IF ended
     THEN /\ prom' = [prom EXCEPT ![id] = Resolve(Pending, <<>>)]
          /\ emptyReads' = Min(2, emptyReads + 1)
          /\ UNCHANGED <<reader, flowing, dataSinceRead>>
     ELSE /\ prom' = [prom EXCEPT ![id] = Pending]
          /\ reader' = id
          /\ flowing' = TRUE
          /\ dataSinceRead' = 0
          /\ UNCHANGED emptyReads

\* The socket emits 'data' only while it is resumed and before 'end', 'end'
\* at most once (the peer may close after any prefix of its bytes, whether
\* or not a read is pending), 'error' at any time and up to MaxErrEvents
\* times, and nothing once it is destroyed.
\* Events are callbacks of the event loop: they run only while the
\* connection's task is suspended on a promise that is not settled yet, never
\* in the middle of its synchronous steps and microtasks.  The caller of the
\* adapter-only specifications may be interrupted anywhere.
Suspended ==
  \/ pc \in {"awaitHdr", "awaitBody", "awaitDrain"} /\ prom[1].st = "pending"
  \/ pc = "awaitWr" /\ wr = "pending"
  \/ pc = "caller"
  \/ pc = "echoAwaitRead" /\ prom[1].st = "pending"
  \/ pc \in {"echoAwaitWr", "echoAwaitBye"} /\ wr = "pending"
CanEmit == Suspended /\ ~destroyed /\ ~crashed

\* the least number of bytes the first read of an oversized stream brings
LongStart == IF Len(wire) > kMaxHeaderLen THEN kMaxHeaderLen - CutWindow ELSE 0

\* the sizes of the chunk the next 'data' event may carry
ChunkSizes == LET rest == Len(wire) - sentN
              IN {k \in 1..rest : \/ k = rest
                                  \/ k <= MaxChunk /\ sentN >= LongStart
                                  \/ sentN = 0 /\ k = LongStart}

\* socket.on("data")
OnData ==
  /\ CanEmit /\ flowing /\ ~endEmitted
  /\ \E k \in ChunkSizes :
       LET data == SubSeq(wire, sentN + 1, sentN + k)
       IN /\ sentN' = sentN + k
          /\ flowing' = FlowingAfterData
          /\ dataSinceRead' = Min(2, dataSinceRead + 1)
          /\ IF reader = 0
             THEN \* conn.reader!.resolve throws a TypeError
                  /\ crashed' = TRUE
                  /\ UNCHANGED <<prom, reader>>
             ELSE /\ prom' = [prom EXCEPT ![reader] = Resolve(@, data)]
                  /\ reader' = ReaderAfterData
                  /\ UNCHANGED crashed
  /\ UNCHANGED <<err, ended, destroyed, wire, endEmitted, nErr, lastErr, writeVars,
                 drvVars, readCalls, lastId, doubleRead, emptyReads, versions, bodyEnd,
                 errResponses, outAtCatch, served>>
  /\ UNCHANGED <<respAt, ref>>
  /\ UNCHANGED lsnVars
  /\ UNCHANGED echoVars

\* socket.on("end"): the peer closes its side, after any prefix of its bytes
OnEnd ==
  /\ CanEmit /\ ~endEmitted
  /\ endEmitted' = TRUE
  /\ ended' = TRUE
  /\ IF reader # 0
     THEN /\ prom' = [prom EXCEPT ![reader] = Resolve(@, <<>>)]
          /\ emptyReads' = Min(2, emptyReads + 1)
          /\ reader' = ReaderAfterEnd
     ELSE UNCHANGED <<prom, reader, emptyReads>>
  /\ UNCHANGED <<err, flowing, destroyed, crashed, wire, sentN, nErr, lastErr, writeVars,
                 drvVars, readCalls, lastId, doubleRead, dataSinceRead, versions, bodyEnd,
                 errResponses, outAtCatch, served>>
  /\ UNCHANGED <<respAt, ref>>
  /\ UNCHANGED lsnVars
  /\ UNCHANGED echoVars

\* socket.on("error")
OnError ==
  /\ CanEmit /\ nErr < MaxErrEvents
  /\ \E e \in Errors :
       /\ lastErr' = e
       /\ err' = ErrAfterError(e)
       /\ IF reader # 0
          THEN /\ prom' = [prom EXCEPT ![reader] = Reject(@, e)]
               /\ reader' = ReaderAfterError
          ELSE UNCHANGED <<prom, reader>>
  /\ nErr' = nErr + 1
  /\ UNCHANGED <<ended, flowing, destroyed, crashed, wire, sentN, endEmitted, writeVars,
                 drvVars, obsVars>>
  /\ UNCHANGED lsnVars
  /\ UNCHANGED echoVars

\* the callback of socket.write, without and with an error
WriteDone ==
  /\ CanEmit /\ wr = "pending"
  /\ wr' = "ok"
  /\ UNCHANGED <<connVars, sockVars, wrErr, out, prom, drvVars, obsVars>>
  /\ UNCHANGED lsnVars
  /\ UNCHANGED echoVars

WriteFail ==
  /\ CanEmit /\ wr = "pending"
  /\ \E e \in Errors : wr' = "failed" /\ wrErr' = e
  /\ UNCHANGED <<connVars, sockVars, out, prom, drvVars, obsVars>>
  /\ UNCHANGED lsnVars
  /\ UNCHANGED echoVars

(***************************************************************************)
(* Connection driver: serveClient inside newConnection's try / catch /     *)
(* finally.  pc names the statement the task is at; the "await..." values  *)
(* are its suspension points.  The task's promise is number 1.             *)
(***************************************************************************)
Running(p) == pc = p /\ ~crashed

Goto(p) == pc' = p /\ UNCHANGED <<exc, swallowed>>

\* mutant: a throw while the catch block writes the error response leaves
\* newConnection at once
Throw_NoFinally(e) ==
  IF inCatch
  THEN pc' = "done" /\ swallowed' = e /\ UNCHANGED exc
  ELSE pc' = "catch" /\ exc' = e /\ UNCHANGED swallowed

\* a throw inside serveClient reaches newConnection's catch; a throw while
\* the catch block writes the error response is ignored (lines 600-604)
Throw(e) ==
  IF inCatch
  THEN pc' = "finally" /\ swallowed' = e /\ UNCHANGED exc
  ELSE pc' = "catch" /\ exc' = e /\ UNCHANGED swallowed

\* mutant: the task goes on without waiting for the callback of socket.write
SocketWrite_NoAwait(data) ==
  IF err # "none"
  THEN Throw(TransportError(err)) /\ UNCHANGED <<wr, wrErr, out>>
  ELSE /\ out' = Append(out, data)
       /\ wr' = "ok"
       /\ Goto("awaitWr")
       /\ UNCHANGED wrErr

\* socketWrite(conn, data) followed by its await
SocketWrite(data) ==
  IF err # "none"
  THEN Throw(TransportError(err)) /\ UNCHANGED <<wr, wrErr, out>>
  ELSE /\ out' = Append(out, data)
       /\ wr' = "pending"
       /\ Goto("awaitWr")
       /\ UNCHANGED wrErr

\* mutant: the body reader takes all that is buffered
Consume_All(rd, b) ==
  [chunk |-> Slice(b.data, 0, b.length),
   buf |-> bufPop(b, b.length),
   reader |-> [rd EXCEPT !.remain = @ - b.length]]

\* readerFromConnLength's read, lines 386-393: take min(buf.length, remain)
\* bytes off the front of the buffer
Consume(rd, b) ==
  LET consume == Min(b.length, rd.remain)
  IN [chunk |-> Slice(b.data, 0, consume),
      buf |-> bufPop(b, consume),
      reader |-> [rd EXCEPT !.remain = @ - consume]]

\* line 541: try to get 1 request header from the buffer
Cut ==
  /\ Running("cut")
  /\ LET r == cutMessage(buf)
     IN CASE r.tag = "null" -> Goto("readHdr") /\ UNCHANGED <<buf, msg, versions>>
          [] r.tag = "msg" -> /\ Goto("haveReq")
                              /\ buf' = r.buf
                              /\ msg' = r.req
                              /\ versions' = Append(versions, r.req.version)
          [] r.tag = "throw" -> Throw(r.exc) /\ UNCHANGED <<buf, msg, versions>>
  /\ UNCHANGED <<connVars, sockVars, writeVars, prom, reqBody, res, memBody, chunk,
                 inCatch, readCalls, lastId, doubleRead, emptyReads, dataSinceRead,
                 bodyEnd, errResponses, outAtCatch, served>>
  /\ UNCHANGED <<respAt, ref>>
  /\ UNCHANGED lsnVars
  /\ UNCHANGED echoVars

\* line 545: socketRead(conn)
ReadHdr ==
  /\ Running("readHdr")
  /\ SocketRead(1)
  /\ Goto("awaitHdr")
  /\ UNCHANGED <<err, ended, destroyed, crashed, wire, sentN, endEmitted, nErr, lastErr,
                 writeVars, buf, msg, reqBody, res, memBody, chunk, inCatch, versions,
                 bodyEnd, errResponses, outAtCatch, served>>
  /\ UNCHANGED <<respAt, ref>>
  /\ UNCHANGED lsnVars
  /\ UNCHANGED echoVars

\* mutant: serveClient returns on every empty chunk, whatever is buffered
AfterHdrRead_EOFReturns(data, b) == IF Len(data) = 0 THEN "return" ELSE "continue"
\* lines 548-558: what serveClient does with the chunk it read, b being the
\* buffer after the chunk was appended
AfterHdrRead(data, b) ==
  IF Len(data) = 0 /\ b.length = 0 THEN "return"
  ELSE IF Len(data) = 0 THEN "throw"
  ELSE "continue"

\* lines 545-558: the read has settled
HdrResume ==
  /\ Running("awaitHdr")
  /\ prom[1].st \in {"resolved", "rejected"}
  /\ prom' = [prom EXCEPT ![1] = FreeProm]
  /\ IF prom[1].st = "rejected"
     THEN Throw(TransportError(prom[1].e)) /\ UNCHANGED buf
     ELSE LET data == prom[1].d
              pushed == bufPush(buf, data)
              todo == AfterHdrRead(data, pushed)
          IN /\ buf' = pushed
             /\ IF todo = "return"
                THEN Goto("finally")
                ELSE IF todo = "throw"
                THEN Throw(HTTPError(400, mUnexpectedEOF))
                ELSE Goto("cut")
  /\ UNCHANGED <<connVars, sockVars, writeVars, msg, reqBody, res, memBody, chunk,
                 inCatch, obsVars>>
  /\ UNCHANGED lsnVars
  /\ UNCHANGED echoVars

\* mutant: handleReq answers every target with the fixed body
handleReq_NeverEcho(req) ==
  [code |-> 200, headers |-> <<sServerHeader>>, bodyIs |-> "mem"]

\* handleReq: the response to req whose body reader is the request body
\* (bodyIs "req") or readerFromMemory("hello world.\n") (bodyIs "mem")
handleReq(req) ==
  [code |-> 200, headers |-> <<sServerHeader>>,
   bodyIs |-> IF req.uri = sEcho THEN "req" ELSE "mem"]

\* lines 562-564: readerFromReq, then handleReq
HaveReq ==
  /\ Running("haveReq")
  /\ LET r == readerFromReq(msg)
     IN IF r.exc.kind # "none"
        THEN Throw(r.exc) /\ UNCHANGED <<reqBody, res, memBody, bodyEnd>>
        ELSE /\ reqBody' = r.reader
             /\ res' = handleReq(msg)
             /\ memBody' = IF msg.uri = sEcho THEN memBody
                            ELSE readerFromMemory(sHelloWorld)
             /\ bodyEnd' = (sentN - buf.length) + r.reader.length
             /\ Goto("respond")
  /\ UNCHANGED <<connVars, sockVars, writeVars, prom, buf, msg, chunk, inCatch,
                 readCalls, lastId, doubleRead, emptyReads, dataSinceRead, versions,
                 errResponses, outAtCatch, served>>
  /\ UNCHANGED <<respAt, ref>>
  /\ UNCHANGED lsnVars
  /\ UNCHANGED echoVars

\* the body reader of the response being written
RespBody == IF res.bodyIs = "req" THEN reqBody ELSE memBody

\* writeHTTPResp, lines 513-523: Content-Length, then the header
Respond ==
  /\ Running("respond")
  /\ IF RespBody.length < 0
     THEN Throw(PlainError(mTODOChunked)) /\ UNCHANGED <<res, writeVars>>
     ELSE LET headers == Append(res.headers, ContentLengthHeader(RespBody.length))
          IN /\ res' = [res EXCEPT !.headers = headers]
             /\ SocketWrite(encodeHTTPResp(res.code, headers))
  /\ respAt' = Len(out)
  /\ UNCHANGED <<connVars, sockVars, prom, buf, msg, reqBody, memBody, chunk, inCatch,
                 readCalls, lastId, doubleRead, emptyReads, dataSinceRead, versions,
                 bodyEnd, errResponses, outAtCatch, served, ref>>
  /\ UNCHANGED lsnVars
  /\ UNCHANGED echoVars

\* lines 523 and 532: the write has settled
WrResume ==
  /\ Running("awaitWr")
  /\ wr \in {"ok", "failed"}
  /\ wr' = "none"
  /\ wrErr' = "none"
  /\ IF wr = "failed" THEN Throw(TransportError(wrErr)) ELSE Goto("bodyRead")
  /\ UNCHANGED <<connVars, sockVars, out, prom, buf, msg, reqBody, res, memBody, chunk,
                 inCatch, obsVars>>
  /\ UNCHANGED lsnVars
  /\ UNCHANGED echoVars

\* where writeHTTPResp returns to: serveClient line 569, or the end of the
\* catch block
AfterWrite == IF inCatch THEN "finally" ELSE "afterResp"

\* mutant: the body reader reports a premature end as an HTTPError
BodyEOFError_HTTP == HTTPError(400, mUnexpectedEOFBody)
\* what readerFromConnLength's read throws when the stream ends inside the
\* body (line 382)
BodyEOFError == PlainError(mUnexpectedEOFBody)

\* line 527: resp.body.read()
BodyRead ==
  /\ Running("bodyRead")
  /\ IF res.bodyIs = "mem"
     THEN \* readerFromMemory's read
          /\ IF memBody.done \/ Len(memBody.data) = 0
             THEN Goto(AfterWrite) /\ UNCHANGED chunk
             ELSE Goto("writeBody") /\ chunk' = memBody.data
          /\ memBody' = [memBody EXCEPT !.done = TRUE]
          /\ UNCHANGED <<reqBody, buf, prom, reader, flowing, readCalls, lastId,
                         doubleRead, emptyReads, dataSinceRead>>
     ELSE \* readerFromConnLength's read
          /\ UNCHANGED memBody
          /\ IF reqBody.remain = 0
             THEN /\ Goto(AfterWrite)
                  /\ UNCHANGED <<reqBody, buf, chunk, prom, reader, flowing, readCalls,
                                 lastId, doubleRead, emptyReads, dataSinceRead>>
             ELSE IF buf.length = 0
             THEN /\ SocketRead(1)
                  /\ Goto("awaitBody")
                  /\ UNCHANGED <<reqBody, buf, chunk>>
             ELSE LET c == Consume(reqBody, buf)
                  IN /\ chunk' = c.chunk /\ buf' = c.buf /\ reqBody' = c.reader
                     /\ Goto("writeBody")
                     /\ UNCHANGED <<prom, reader, flowing, readCalls, lastId, doubleRead,
                                    emptyReads, dataSinceRead>>
  /\ UNCHANGED <<err, ended, destroyed, crashed, wire, sentN, endEmitted, nErr, lastErr,
                 writeVars, msg, res, inCatch, versions, bodyEnd, errResponses, outAtCatch, served>>
  /\ UNCHANGED <<respAt, ref>>
  /\ UNCHANGED lsnVars
  /\ UNCHANGED echoVars

\* lines 377-393, reached from line 527: the read has settled
BodyResume ==
  /\ Running("awaitBody")
  /\ prom[1].st \in {"resolved", "rejected"}
  /\ prom' = [prom EXCEPT ![1] = FreeProm]
  /\ IF prom[1].st = "rejected"
     THEN Throw(TransportError(prom[1].e)) /\ UNCHANGED <<buf, reqBody, chunk>>
     ELSE LET data == prom[1].d
              pushed == bufPush(buf, data)
              c == Consume(reqBody, pushed)
          IN IF Len(data) = 0
             THEN /\ Throw(BodyEOFError)
                  /\ buf' = pushed
                  /\ UNCHANGED <<reqBody, chunk>>
             ELSE /\ chunk' = c.chunk /\ buf' = c.buf /\ reqBody' = c.reader
                  /\ Goto("writeBody")
  /\ UNCHANGED <<connVars, sockVars, writeVars, msg, res, memBody, inCatch, obsVars>>
  /\ UNCHANGED lsnVars
  /\ UNCHANGED echoVars

\* line 532: socketWrite(conn, data)
WriteBody ==
  /\ Running("writeBody")
  /\ SocketWrite(chunk)
  /\ UNCHANGED <<connVars, sockVars, prom, buf, msg, reqBody, res, memBody, chunk,
                 inCatch, obsVars>>
  /\ UNCHANGED lsnVars
  /\ UNCHANGED echoVars

\* mutant: serveClient frames the next request without draining the body
NextAfterResp_NoDrain == IF msg.version = sVersion10 THEN "finally" ELSE "cut"
\* mutant: serveClient does not close after an HTTP/1.0 request
NextAfterResp_NoClose == "drain"
\* where serveClient goes once the response is written (lines 568-574)
NextAfterResp == IF msg.version = sVersion10 THEN "finally" ELSE "drain"

AfterResp ==
  /\ Running("afterResp")
  /\ Goto(NextAfterResp)
  /\ served' = served + 1
  /\ UNCHANGED <<connVars, sockVars, writeVars, prom, buf, msg, reqBody, res, memBody,
                 chunk, inCatch, readCalls, lastId, doubleRead, emptyReads, dataSinceRead,
                 versions, bodyEnd, errResponses, outAtCatch>>
  /\ UNCHANGED <<respAt, ref>>
  /\ UNCHANGED lsnVars
  /\ UNCHANGED echoVars

\* line 574: reqBody.read() until it returns an empty chunk
Drain ==
  /\ Running("drain")
  /\ IF reqBody.remain = 0
     THEN /\ Goto("cut")
          /\ UNCHANGED <<reqBody, buf, prom, reader, flowing, readCalls, lastId,
                         doubleRead, emptyReads, dataSinceRead>>
     ELSE IF buf.length = 0
     THEN /\ SocketRead(1)
          /\ Goto("awaitDrain")
          /\ UNCHANGED <<reqBody, buf>>
     ELSE LET c == Consume(reqBody, buf)
          IN /\ buf' = c.buf /\ reqBody' = c.reader
             /\ Goto("drain")
             /\ UNCHANGED <<prom, reader, flowing, readCalls, lastId, doubleRead,
                            emptyReads, dataSinceRead>>
  /\ UNCHANGED <<err, ended, destroyed, crashed, wire, sentN, endEmitted, nErr, lastErr,
                 writeVars, msg, res, memBody, chunk, inCatch, versions, bodyEnd,
                 errResponses, outAtCatch, served>>
  /\ UNCHANGED <<respAt, ref>>
  /\ UNCHANGED lsnVars
  /\ UNCHANGED echoVars

\* lines 377-393, reached from line 574: the read has settled
DrainResume ==
  /\ Running("awaitDrain")
  /\ prom[1].st \in {"resolved", "rejected"}
  /\ prom' = [prom EXCEPT ![1] = FreeProm]
  /\ IF prom[1].st = "rejected"
     THEN Throw(TransportError(prom[1].e)) /\ UNCHANGED <<buf, reqBody>>
     ELSE LET data == prom[1].d
              pushed == bufPush(buf, data)
              c == Consume(reqBody, pushed)
          IN IF Len(data) = 0
             THEN /\ Throw(BodyEOFError)
                  /\ buf' = pushed
                  /\ UNCHANGED reqBody
             ELSE /\ buf' = c.buf /\ reqBody' = c.reader
                  /\ Goto("drain")
  /\ UNCHANGED <<connVars, sockVars, writeVars, msg, res, memBody, chunk, inCatch,
                 obsVars>>
  /\ UNCHANGED lsnVars
  /\ UNCHANGED echoVars

\* mutant: the catch block answers every exception
IsHTTPError_Always(x) == TRUE
\* mutant: the catch block answers no exception
IsHTTPError_Never(x) == FALSE
\* whether newConnection's catch block answers the exception (line 593)
IsHTTPError(x) == x.kind = "http"

\* the response of the catch block, lines 594-598: its body is
\* readerFromMemory(excp.message + "\n")
ErrorBody(x) == x.msg \o <<LF>>

\* lines 590-601
Catch ==
  /\ Running("catch")
  /\ IF IsHTTPError(exc)
     THEN /\ res' = [code |-> exc.code, headers |-> <<>>, bodyIs |-> "mem"]
          /\ memBody' = readerFromMemory(ErrorBody(exc))
          /\ inCatch' = TRUE
          /\ errResponses' = errResponses + 1
          /\ Goto("respond")
     ELSE /\ Goto("finally")
          /\ UNCHANGED <<res, memBody, inCatch, errResponses>>
  /\ outAtCatch' = Len(out)
  /\ UNCHANGED <<connVars, sockVars, writeVars, prom, buf, msg, reqBody, chunk,
                 readCalls, lastId, doubleRead, emptyReads, dataSinceRead, versions,
                 bodyEnd, served>>
  /\ UNCHANGED <<respAt, ref>>
  /\ UNCHANGED lsnVars
  /\ UNCHANGED echoVars

\* line 607: socket.destroy()
Finally ==
  /\ Running("finally")
  /\ destroyed' = TRUE
  /\ Goto("done")
  /\ UNCHANGED <<connVars, flowing, crashed, wire, sentN, endEmitted, nErr, lastErr,
                 writeVars, prom, buf, msg, reqBody, res, memBody, chunk, inCatch,
                 obsVars>>
  /\ UNCHANGED lsnVars
  /\ UNCHANGED echoVars

Next ==
  \/ Cut \/ ReadHdr \/ HdrResume \/ HaveReq \/ Respond \/ WrResume \/ BodyRead
  \/ BodyResume \/ WriteBody \/ AfterResp \/ Drain \/ DrainResume \/ Catch \/ Finally
  \/ OnData \/ OnEnd \/ OnError \/ WriteDone \/ WriteFail

Spec == Init /\ [][Next]_vars

\* the same task, serving the peers of Init and a peer whose header is
\* oversized
InitLong == InitCommon /\ wire \in (Wires \cup LongWires) /\ pc = "cut"

SpecLong == InitLong /\ [][Next]_vars

\* the same task, serving peers whose requests are malformed or carry a
\* body framing the server refuses
InitReq == InitCommon /\ wire \in ReqWires /\ pc = "cut"

SpecReq == InitReq /\ [][Next]_vars

(***************************************************************************)
(* The adapter under an arbitrary caller: any program that calls           *)
(* socketRead and awaits the promises it gets.                             *)
(***************************************************************************)
FreeIds == {i \in 1..MaxProm : prom[i].st = "free"}
NextId == CHOOSE i \in FreeIds : \A j \in FreeIds : i <= j

CallerIdle == pc = "caller" /\ ~crashed /\ ~destroyed

\* a caller that keeps the contract: no read while one of its reads is pending
CallerRead ==
  /\ CallerIdle
  /\ FreeIds # {}
  /\ \A i \in 1..MaxProm : prom[i].st # "pending"
  /\ SocketRead(NextId)
  /\ UNCHANGED <<err, ended, destroyed, crashed, wire, sentN, endEmitted, nErr, lastErr,
                 writeVars, drvVars, versions, bodyEnd, errResponses, outAtCatch, served>>
  /\ UNCHANGED <<respAt, ref>>
  /\ UNCHANGED lsnVars
  /\ UNCHANGED echoVars

\* a caller that may also read while a read is pending
CallerReadAny ==
  /\ CallerIdle
  /\ FreeIds # {}
  /\ SocketRead(NextId)
  /\ UNCHANGED <<err, ended, destroyed, crashed, wire, sentN, endEmitted, nErr, lastErr,
                 writeVars, drvVars, versions, bodyEnd, errResponses, outAtCatch, served>>
  /\ UNCHANGED <<respAt, ref>>
  /\ UNCHANGED lsnVars
  /\ UNCHANGED echoVars

\* the continuation of an await on a settled promise
CallerTake ==
  /\ CallerIdle
  /\ \E i \in 1..MaxProm :
       /\ prom[i].st \in {"resolved", "rejected"}
       /\ prom' = [prom EXCEPT ![i] = FreeProm]
  /\ UNCHANGED <<connVars, sockVars, writeVars, drvVars, obsVars>>
  /\ UNCHANGED lsnVars
  /\ UNCHANGED echoVars

NextAdapter == CallerRead \/ CallerTake \/ OnData \/ OnEnd \/ OnError

SpecAdapter == InitAdapter /\ [][NextAdapter]_vars

NextAdapterAny == CallerReadAny \/ CallerTake \/ OnData \/ OnEnd \/ OnError

SpecAdapterAny == InitAdapter /\ [][NextAdapterAny]_vars

(***************************************************************************)
(* The buffer alone: any sequence of bufPush and bufPop calls, ref being   *)
(* the byte sequence the calls stand for.                                  *)
(***************************************************************************)
InitBuf == InitCommon /\ wire \in BufWires /\ pc = "buf"

\* the sizes of the chunk the next bufPush may append: nothing, a few bytes,
\* more than the minimum capacity, or all the rest
PushSizes == LET rest == Len(wire) - sentN
             IN {k \in 0..rest : k \in {0, BufStep, kMinCap + 1, rest}}

\* bufPush(buf, data)
BufPush ==
  /\ pc = "buf"
  /\ \E k \in PushSizes :
       LET data == SubSeq(wire, sentN + 1, sentN + k)
       IN /\ buf' = bufPush(buf, data)
          /\ ref' = ref \o data
          /\ sentN' = sentN + k
  /\ UNCHANGED <<connVars, flowing, destroyed, crashed, wire, endEmitted, nErr, lastErr,
                 writeVars, prom, pc, msg, reqBody, res, memBody, chunk, exc, inCatch,
                 swallowed, readCalls, lastId, doubleRead, emptyReads, dataSinceRead,
                 versions, bodyEnd, errResponses, outAtCatch, served, respAt>>
  /\ UNCHANGED lsnVars
  /\ UNCHANGED echoVars

\* how many bytes the next bufPop may drop: none, a few, or all
PopSizes == {len \in 0..buf.length : len \in {0, BufStep, buf.length}}

\* bufPop(buf, len) with 0 <= len <= buf.length
BufPop ==
  /\ pc = "buf"
  /\ \E len \in PopSizes :
       /\ buf' = bufPop(buf, len)
       /\ ref' = SubSeq(ref, len + 1, Len(ref))
  /\ UNCHANGED <<connVars, sockVars, writeVars, prom, pc, msg, reqBody, res, memBody,
                 chunk, exc, inCatch, swallowed, readCalls, lastId, doubleRead,
                 emptyReads, dataSinceRead, versions, bodyEnd, errResponses, outAtCatch,
                 served, respAt>>
  /\ UNCHANGED lsnVars
  /\ UNCHANGED echoVars

NextBuf == BufPush \/ BufPop

SpecBuf == InitBuf /\ [][NextBuf]_vars

(***************************************************************************)
(* Properties.                                                             *)
(***************************************************************************)
Last(s) == s[Len(s)]
IsPrefix(a, b) == Len(a) <= Len(b) /\ SubSeq(b, 1, Len(a)) = a

\* C1: in a connection driven by serveClient (framing reads, body reads of
\* the response, the drain), socketRead is never called while conn.reader
\* is non-null, whatever the data, end and error events do.
C1_SingleReader == [][readCalls' # readCalls => reader = 0]_vars

\* a drain read is pending after the framing reads of the first request
C1_Witness == pc = "awaitDrain" /\ reader = 1 /\ prom[1].st = "pending" /\ served = 1

\* C2, as stated: at most one socketRead of a connection ever returns an
\* empty chunk.
C2_EmptyOnlyOnce == emptyReads <= 1

\* C2, amended: once the peer has closed the stream, every socketRead made
\* while no error is stored returns an empty chunk at once, again and again,
\* without installing a reader or resuming the socket; an empty chunk is
\* returned only after the close, and no read returns data after one has
\* returned an empty chunk.
C2_EmptyOnEveryReadAfterEnd ==
  [][ /\ (readCalls' # readCalls /\ ended /\ err = "none") =>
           /\ prom'[lastId'].st = "resolved" /\ prom'[lastId'].d = <<>>
           /\ reader' = reader /\ flowing' = flowing
      /\ emptyReads' >= 1 => ended'
      /\ emptyReads >= 1 =>
           \A i \in 1..MaxProm :
             (prom'[i] # prom[i] /\ prom'[i].st = "resolved") => prom'[i].d = <<>> ]_vars

\* a second read after the close has returned an empty chunk as well
C2_Witness == emptyReads = 2 /\ err = "none" /\ \A i \in 1..MaxProm : prom[i].st # "pending"

\* C3: an error event is recorded and fails the pending read, if any, at
\* once with that error; every socketRead made afterwards is rejected at
\* once with the stored error, installs no reader and does not resume the
\* socket, also when an end event has been seen.
C3_ErrorFailsReads ==
  [][ /\ nErr' # nErr =>
           /\ err' = lastErr'
           /\ reader' = 0
           /\ reader # 0 => prom'[reader].st = "rejected" /\ prom'[reader].e = lastErr'
      /\ (readCalls' # readCalls /\ err # "none") =>
           /\ prom'[lastId'].st = "rejected" /\ prom'[lastId'].e = err
           /\ reader' = reader /\ flowing' = flowing ]_vars

\* a body read made after both an end and an error event was rejected at once
C3_Witness ==
  /\ pc = "awaitBody" /\ prom[1].st = "rejected" /\ prom[1].e = err
  /\ ended /\ reader = 0 /\ ~flowing

\* C4: once conn.err is non-null its value never changes again.
C4_ErrSetOnce == [][err # "none" => err' = err]_vars

\* C5, as stated: an end event with a read pending resolves that read with
\* an empty chunk and clears the slot; with none pending it is remembered
\* and the next socketRead resolves at once with an empty chunk.
C5_EndThenEmpty ==
  [][ /\ endEmitted' # endEmitted =>
           /\ ended' /\ reader' = 0
           /\ reader # 0 => prom'[reader].st = "resolved" /\ prom'[reader].d = <<>>
      /\ (readCalls' # readCalls /\ ended) =>
           prom'[lastId'].st = "resolved" /\ prom'[lastId'].d = <<>> ]_vars

\* C5, amended: as stated, except that the read made after a remembered end
\* resolves with an empty chunk only if no error is stored; if one is, the
\* read is rejected with it.
C5_EndThenEmptyUnlessError ==
  [][ /\ endEmitted' # endEmitted =>
           /\ ended' /\ reader' = 0
           /\ reader # 0 => prom'[reader].st = "resolved" /\ prom'[reader].d = <<>>
      /\ (readCalls' # readCalls /\ ended /\ err = "none") =>
           /\ prom'[lastId'].st = "resolved" /\ prom'[lastId'].d = <<>>
           /\ reader' = reader /\ flowing' = flowing
      /\ (readCalls' # readCalls /\ ended /\ err # "none") =>
           prom'[lastId'].st = "rejected" /\ prom'[lastId'].e = err ]_vars

\* the end came while the task was writing; its next read, made with the
\* socket still paused, has resolved with an empty chunk
C5_Witness ==
  /\ pc \in {"awaitHdr", "awaitBody", "awaitDrain"}
  /\ prom[1].st = "resolved" /\ prom[1].d = <<>>
  /\ ended /\ err = "none" /\ ~flowing /\ sentN > 0

\* C6: every data event finds the socket flowing and leaves it paused; the
\* socket starts flowing again only in a socketRead; so no second data event
\* is delivered before the next read.
C6_Backpressure ==
  [][ /\ sentN' # sentN => flowing /\ ~flowing'
      /\ (~flowing /\ flowing') => readCalls' # readCalls
      /\ dataSinceRead' <= 1 ]_vars

\* the peer has more bytes to send, but the socket stays paused while the
\* task waits for its write
C6_Witness ==
  /\ pc = "awaitWr" /\ wr = "pending" /\ dataSinceRead = 1 /\ ~flowing
  /\ sentN < Len(wire) /\ ~endEmitted

\* C7: a socketRead made while a read is pending does not become the pending
\* read: every pending read is the one whose callbacks conn.reader holds, so
\* the next event completes it.
C7_SecondReadRejected == \A i \in 1..MaxProm : prom[i].st = "pending" => reader = i

\* C8: whenever serveClient frames a request after the first, the body
\* reader of the previous request has been read to completion and the
\* buffer starts with the first stream byte after that request's declared
\* body.
C8_DrainBeforeNextRequest ==
  (pc = "cut" /\ versions # <<>>) =>
     /\ reqBody.remain = 0
     /\ bodyEnd <= sentN
     /\ Content(buf) = SubSeq(wire, bodyEnd + 1, sentN)

\* the handler did not read the 2-byte body of the PUT request; the next
\* request's bytes are in the buffer
C8_Witness ==
  /\ pc = "cut" /\ Len(versions) = 1 /\ msg.method = sPUT /\ reqBody.length = 2
  /\ buf.length > 0 /\ served = 1

ExpectedErrResponse(x) ==
  <<encodeHTTPResp(x.code, <<ContentLengthHeader(Len(x.msg) + 1)>>), x.msg \o <<LF>>>>

\* what was handed to socket.write since the catch block was entered
WrittenInCatch == SubSeq(out, outAtCatch + 1, Len(out))

\* C10: an HTTPError thrown in serveClient starts one error response, never
\* a second; its header is written if conn.err is null, and what is written
\* is the header with the error's code, then the message and a line feed;
\* the task then only finishes that response and destroys the socket; a
\* failure while writing it is ignored and leads to the destroy as well.
C10_ErrorResponse ==
  [][ /\ errResponses' <= 1
      /\ (exc'.kind = "http" /\ pc' # "catch") =>
           /\ inCatch' /\ errResponses' = 1
           /\ IsPrefix(WrittenInCatch', ExpectedErrResponse(exc'))
      /\ (pc = "respond" /\ inCatch /\ err = "none") =>
           out' = Append(out, ExpectedErrResponse(exc)[1])
      /\ inCatch =>
           pc' \in {"respond", "awaitWr", "bodyRead", "writeBody", "finally", "done"}
      /\ (inCatch /\ swallowed' # swallowed) => pc' = "finally"
      /\ (pc' = "done" /\ exc'.kind = "http" /\ swallowed'.kind = "none") =>
           WrittenInCatch' = ExpectedErrResponse(exc')
      /\ pc' = "done" => destroyed' ]_vars

\* a 400 response was written in full and the socket destroyed
C10_Witness ==
  /\ pc = "done" /\ destroyed /\ exc.kind = "http" /\ exc.code = 400
  /\ swallowed.kind = "none" /\ WrittenInCatch = ExpectedErrResponse(exc)

\* C11: when the stream ends in the middle of a request body (the read made
\* by the body reader returns an empty chunk while bytes remain), the
\* exception is an HTTP error of status 400 or 501, and the task does not
\* reach its finally block without having started an error response.
C11_BodyEOFAnswered ==
  /\ exc.msg = mUnexpectedEOFBody => exc.kind = "http" /\ exc.code \in {400, 501}
  /\ (exc.msg = mUnexpectedEOFBody /\ pc \in {"finally", "done"}) => errResponses = 1

\* C12: once a transport error (a rejected socketRead or socketWrite) has
\* been thrown in the task, nothing more is handed to socket.write: the step
\* that observes the error writes nothing, the catch block starts no
\* response for it, and the task goes on to destroy the socket. The same
\* holds for a transport error met while an error response is written.
C12_TransportErrorNoResponse ==
  [][ /\ (exc'.kind = "transport" /\ exc.kind # "transport") =>
           out' = out /\ pc' = "catch"
      /\ exc.kind = "transport" =>
           /\ out' = out /\ errResponses' = 0 /\ ~inCatch'
           /\ pc' = (IF pc = "catch" THEN "finally" ELSE "done")
      /\ (swallowed'.kind = "transport" /\ swallowed.kind # "transport") =>
           out' = out /\ pc' = "finally"
      /\ swallowed.kind = "transport" => out' = out /\ pc' = "done"
      /\ (pc' = "done" /\ "transport" \in {exc'.kind, swallowed'.kind}) => destroyed' ]_vars

\* the callback of a write reported an error while conn.err was null (a
\* further socketWrite would have been accepted); the task wrote nothing
\* after that write and destroyed the socket
C12_Witness ==
  /\ pc = "done" /\ destroyed /\ exc.kind = "transport" /\ err = "none"
  /\ Len(out) >= 1 /\ errResponses = 0

\* C13: a connection task that has terminated has destroyed its socket,
\* whichever way it left serveClient: by a return, by an HTTP error whose
\* response was written or could not be written, by a transport error or by
\* any other exception; and the socket is destroyed by the task's last step
\* only.
C13_DestroyOnEveryExit ==
  /\ pc = "done" => destroyed
  /\ destroyed => pc = "done"

\* an HTTP error whose error response could not be written: the write
\* failed, the failure was ignored and the socket destroyed
C13_Witness ==
  /\ pc = "done" /\ destroyed /\ exc.kind = "http" /\ swallowed.kind = "transport"
  /\ errResponses = 1

\* C14: a read made to get more of a header is made with no complete header
\* in the buffer. When it returns an empty chunk and the buffer is empty,
\* serveClient returns: no exception, nothing written then or later. When
\* it returns an empty chunk and the buffer is not empty, serveClient throws
\* the HTTP error 400 "Unexpected EOF.".
C14_EOFAwaitingHeader ==
  [][ /\ pc' = "awaitHdr" => IndexOf(Content(buf'), kHeaderEnd) = -1
      /\ (pc = "awaitHdr" /\ prom[1].st = "resolved" /\ prom[1].d = <<>>) =>
           IF buf.length = 0
           THEN pc' = "finally" /\ exc' = NoExc /\ out' = out /\ buf' = buf
           ELSE pc' = "catch" /\ exc' = HTTPError(400, mUnexpectedEOF) /\ buf' = buf
      /\ (pc \in {"finally", "done"} /\ exc = NoExc) => out' = out /\ exc' = NoExc ]_vars

\* after one request was served the peer sent a part of a header and closed:
\* the task failed with 400 and the partial header in its buffer
C14_Witness ==
  /\ pc = "catch" /\ exc = HTTPError(400, mUnexpectedEOF) /\ ended
  /\ buf.length > 0 /\ served = 1

\* C15: serveClient never frames a request whose header block, the bytes
\* from the end of the previous request's body to the '\r\n\r\n' terminator,
\* is kMaxHeaderLen bytes long or longer (such a request fails with 413),
\* however the bytes are split across reads.
C15_OversizedHeaderRejected ==
  pc = "haveReq" => (sentN - buf.length) - bodyEnd - Len(kHeaderEnd) < kMaxHeaderLen

\* the outcome of serveClient's first cutMessage when the whole stream has
\* arrived in one read
FramedAtOnce == cutMessage(bufPush(EmptyBuf, wire))

\* C16: however the stream is split across reads, the first request framed
\* by serveClient's loop is the request framed when the stream arrives in
\* one read, with the same bytes left in the buffer (as far as they have
\* arrived); and an HTTP error thrown by the loop, other than for a stream
\* that ended, is the error thrown when the stream arrives in one read.
C16_FramingIgnoresChunking ==
  /\ (pc = "haveReq" /\ Len(versions) = 1) =>
       /\ FramedAtOnce.tag = "msg"
       /\ msg = FramedAtOnce.req
       /\ IsPrefix(Content(buf), Content(FramedAtOnce.buf))
  /\ (pc = "catch" /\ versions = <<>> /\ exc.kind = "http"
        /\ exc # HTTPError(400, mUnexpectedEOF)) =>
       FramedAtOnce.tag = "throw" /\ exc = FramedAtOnce.exc

\* the concatenation of a sequence of chunks
RECURSIVE Flatten(_)
Flatten(chunks) == IF chunks = <<>> THEN <<>> ELSE Head(chunks) \o Flatten(Tail(chunks))

\* the number of stream bytes appended to the buffer so far: those delivered,
\* less the chunk the task has not taken from its settled read yet
Pushed == sentN - Len(prom[1].d)

\* the number of stream bytes taken out of the buffer so far
Pos == Pushed - buf.length

\* serveClient holds the body reader of the request it is answering
InBody ==
  /\ ~inCatch
  /\ pc \in {"respond", "awaitWr", "bodyRead", "awaitBody", "writeBody", "afterResp",
             "drain", "awaitDrain"}

\* C17: the body reader made for Content-Length N takes the request's body
\* bytes off the buffer in stream order and nothing else: what it has taken
\* so far are the first N - remain body bytes, each chunk it returns is the
\* next non-empty piece of them, the bytes after them stay in the buffer in
\* order, and the chunks written for an /echo request add up to the N body
\* bytes. With remain = 0 it returns an empty chunk without touching the
\* buffer or the stream, on every call; it reads the stream only with an
\* empty buffer and remain > 0.
C17_BodyReader ==
  [][ /\ InBody' =>
           /\ reqBody'.length >= 0
           /\ reqBody'.remain \in 0..reqBody'.length
           /\ Pos' = bodyEnd' - reqBody'.remain
           /\ Content(buf') = SubSeq(wire, Pos' + 1, Pushed')
      /\ (InBody' /\ pc' = "writeBody" /\ res'.bodyIs = "req") =>
           /\ chunk' # <<>>
           /\ chunk' = SubSeq(wire, Pos' - Len(chunk') + 1, Pos')
      /\ (pc' = "afterResp" /\ res'.bodyIs = "req") =>
           /\ reqBody'.remain = 0
           /\ Flatten(SubSeq(out', respAt' + 2, Len(out'))) =
                SubSeq(wire, bodyEnd' - reqBody'.length + 1, bodyEnd')
      /\ (readCalls' # readCalls /\ pc \in {"bodyRead", "drain"}) =>
           buf.length = 0 /\ reqBody.remain > 0
      /\ (InBody /\ reqBody.remain = 0
            /\ (pc = "drain" \/ (pc = "bodyRead" /\ res.bodyIs = "req"))) =>
           /\ pc' = (IF pc = "drain" THEN "cut" ELSE "afterResp")
           /\ buf' = buf /\ reqBody' = reqBody /\ readCalls' = readCalls /\ out' = out
      /\ (InBody /\ reqBody' # reqBody) =>
           /\ reqBody.remain > 0
           /\ reqBody'.remain < reqBody.remain
           /\ buf'.length = buf.length + (Pushed' - Pushed) - (reqBody.remain - reqBody'.remain) ]_vars

\* the 2-byte body of the /echo request came in two reads, the second one
\* bringing a byte of the next request as well: two chunks were written and
\* the extra byte is still in the buffer
C17_Witness ==
  /\ pc = "afterResp" /\ res.bodyIs = "req" /\ reqBody.length = 2 /\ reqBody.remain = 0
  /\ Len(out) = respAt + 3 /\ buf.length > 0

\* C18: after any sequence of bufPush and bufPop calls, each bufPop taking
\* at most the current length, the buffer's content data[0 .. length) is the
\* sequence of the appended bytes without the bytes dropped from its head.
C18_BufferRefinesSequence ==
  /\ buf.length = Len(ref)
  /\ buf.length <= Len(buf.data)
  /\ Content(buf) = ref

\* bytes were dropped from the head of the buffer, and it holds more bytes
\* than its minimum capacity: it has grown
C18_Witness ==
  /\ pc = "buf" /\ Len(buf.data) > kMinCap /\ Len(ref) > kMinCap
  /\ Head(ref) > 1 /\ Content(buf) = ref

RECURSIVE Pow2(_)
Pow2(k) == IF k = 0 THEN 1 ELSE 2 * Pow2(k - 1)

\* C19: in every state of a connection served by serveClient the buffer's
\* length is between 0 and its capacity. No step makes the capacity smaller;
\* the steps that change it append the chunk of a settled read (bufPush)
\* to a buffer too small for it, and the new capacity is the old one, or 32
\* if that is more, doubled until it holds the new length, and no further.
C19_CapacityOnlyGrows ==
  [][ /\ buf.length \in 0..Len(buf.data)
      /\ buf'.length \in 0..Len(buf'.data)
      /\ Len(buf'.data) >= Len(buf.data)
      /\ Len(buf'.data) # Len(buf.data) =>
           LET newLen == buf.length + Len(prom[1].d)
           IN /\ pc \in {"awaitHdr", "awaitBody", "awaitDrain"}
              /\ prom[1].st = "resolved"
              /\ Len(buf.data) < newLen
              /\ \E k \in 0..16 :
                   /\ Len(buf'.data) = Max(Len(buf.data), kMinCap) * Pow2(k)
                   /\ Len(buf'.data) >= newLen
                   /\ k > 0 => Len(buf'.data) \div 2 < newLen ]_vars

\* reads of one and two bytes have filled the buffer past its minimum
\* capacity before the first header was complete: it has grown from 32 to
\* 64 bytes
C19_Witness ==
  /\ pc = "cut" /\ versions = <<>> /\ sentN = kMinCap + 1
  /\ buf.length = kMinCap + 1 /\ Len(buf.data) = 2 * kMinCap

\* the writes of the latest response: its first one, and the later ones
RespHeader == out[respAt + 1]
RespChunks == SubSeq(out, respAt + 2, Len(out))

\* the body of the latest response, and what its body reader has returned
\* of it so far
FullBody ==
  IF res.bodyIs = "mem" THEN memBody.data
  ELSE SubSeq(wire, bodyEnd - reqBody.length + 1, bodyEnd)
BodyYielded ==
  IF res.bodyIs = "mem" THEN (IF memBody.done THEN memBody.data ELSE <<>>)
  ELSE SubSeq(wire, bodyEnd - reqBody.length + 1, bodyEnd - reqBody.remain)

\* writeHTTPResp has written the header and is in its body loop
Writing == pc \in {"awaitWr", "bodyRead", "awaitBody", "writeBody"}

\* writeHTTPResp has returned and no other response was begun since
Written ==
  \/ pc \in {"afterResp", "drain", "awaitDrain", "cut", "readHdr", "awaitHdr", "haveReq"}
  \/ pc = "catch" /\ exc.kind = "http"
  \/ pc \in {"finally", "done"} /\ exc.kind \in {"none", "http"} /\ swallowed.kind = "none"

\* C20: socket.write is called only when the previous write's callback has
\* run and the task has resumed, and each call adds its bytes after all
\* earlier ones. The first write of a response is its encoded header; the
\* writes after it are the chunks its body reader returned, in that order
\* (their concatenation, with the chunk about to be written, is what the
\* reader has returned so far). A response is begun only after the one
\* before it was written in full: header, then the whole body.
C20_WriteOrder ==
  [][ /\ out' # out =>
           /\ wr = "none" /\ wr' = "pending"
           /\ pc \in {"respond", "writeBody"}
           /\ out' = Append(out, IF pc = "respond"
                                 THEN encodeHTTPResp(res'.code, res'.headers)
                                 ELSE chunk)
      /\ respAt' # respAt => pc = "respond" /\ respAt' = Len(out)
      /\ (pc' = "respond" /\ out # <<>>) => Written /\ Len(out) > respAt
      /\ Writing' =>
           /\ Len(out') > respAt'
           /\ RespHeader' = encodeHTTPResp(res'.code, res'.headers)
           /\ Flatten(RespChunks') \o (IF pc' = "writeBody" THEN chunk' ELSE <<>>)
                = BodyYielded'
      /\ (Written' /\ Len(out') > respAt') =>
           /\ RespHeader' = encodeHTTPResp(res'.code, res'.headers)
           /\ Flatten(RespChunks') = FullBody'
           /\ Last(res'.headers) = ContentLengthHeader(Len(FullBody')) ]_vars

\* the second response on a connection is being written: the /echo response
\* went out as a header and two chunks of one byte, then came the header of
\* the next response, whose body is about to be written
C20_Witness ==
  /\ pc = "writeBody" /\ served = 1 /\ respAt = 3 /\ Len(out) = 4
  /\ Len(out[2]) = 1 /\ Len(out[3]) = 1 /\ res.bodyIs = "mem" /\ ~inCatch

(***************************************************************************)
(* Requests the server refuses before the handler.                         *)
(***************************************************************************)
\* the request names a method without a body and announces one: a
\* Content-Length that parses to a positive number, or chunked coding
AnnouncesBody(req) ==
  LET cl == fieldGet(req.headers, sContentLength)
      te == fieldGet(req.headers, sTransferEncoding)
  IN \/ cl.found /\ ~parseDec(cl.val).nan /\ parseDec(cl.val).val > 0
     \/ te.found /\ te.val = sChunked
BodyDisallowed(req) == req.method \in {sGET, sHEAD} /\ AnnouncesBody(req)

\* C21: for a framed GET or HEAD request with a positive Content-Length or
\* chunked Transfer-Encoding, serveClient throws HTTPError 400 from
\* readerFromReq: handleReq has produced no response for it, nothing was
\* written for it, every earlier response is complete, and the response that
\* follows is the 400 of the catch block.
C21_BodyNotAllowed ==
  [][ /\ (pc = "haveReq" /\ BodyDisallowed(msg)) =>
           /\ pc' = "catch" /\ exc' = HTTPError(400, mBodyNotAllowed)
           /\ res' = res /\ out' = out /\ respAt' = respAt
           /\ served = Len(versions) - 1
      /\ (pc = "catch" /\ exc = HTTPError(400, mBodyNotAllowed)) =>
           /\ res'.code = 400 /\ errResponses' = 1 /\ out' = out ]_vars

\* a HEAD request with chunked coding was refused after an earlier request
\* of the connection was served
C21_Witness ==
  /\ pc = "catch" /\ exc = HTTPError(400, mBodyNotAllowed)
  /\ msg.method = sHEAD /\ served = 1 /\ Len(versions) = 2 /\ Len(out) >= 2

\* the request carries no Content-Length header
NoContentLength(req) == ~fieldGet(req.headers, sContentLength).found

\* C22, as stated: for a framed request that the check of the methods
\* without a body does not refuse and that carries no Content-Length header,
\* readerFromReq throws HTTPError 501.
C22_NoLength501 ==
  [][ (pc = "haveReq" /\ ~BodyDisallowed(msg) /\ NoContentLength(msg)) =>
        (pc' = "catch" /\ exc' = HTTPError(501, mTODO)) ]_vars

\* C22, amended: for a framed request without a Content-Length header whose
\* method allows a body (any method but GET and HEAD), readerFromReq throws
\* HTTPError 501, chunked coding or not, no response is produced for it and
\* the catch block answers 501; a GET or HEAD request without a
\* Content-Length header and without chunked coding gets a body reader of
\* length 0 and is handled.
C22_NoLength501_BodyMethods ==
  [][ /\ (pc = "haveReq" /\ NoContentLength(msg) /\ msg.method \notin {sGET, sHEAD}) =>
           /\ pc' = "catch" /\ exc' = HTTPError(501, mTODO)
           /\ res' = res /\ out' = out
      /\ (pc = "catch" /\ exc = HTTPError(501, mTODO)) =>
           /\ res'.code = 501 /\ errResponses' = 1
      /\ (pc = "haveReq" /\ NoContentLength(msg) /\ msg.method \in {sGET, sHEAD}
          /\ ~BodyDisallowed(msg)) =>
           /\ pc' = "respond" /\ exc' = exc
           /\ reqBody' = readerFromConnLength(0)
           /\ res' = handleReq(msg) ]_vars

\* a POST request with chunked coding and no Content-Length was refused
\* with 501 after a GET request was served
C22_Witness ==
  /\ pc = "catch" /\ exc = HTTPError(501, mTODO)
  /\ msg.method = sPOST /\ NoContentLength(msg)
  /\ fieldGet(msg.headers, sTransferEncoding).found
  /\ served = 1 /\ Len(versions) = 2

\* the first line of the header block in the buffer, the number of tokens
\* its single spaces separate, and the first of them
HeaderFramed == IndexOf(Content(buf), kHeaderEnd) >= 0
FirstLine == Slice(Content(buf), 0, IndexOf(Content(buf), <<CR, LF>>))
TokenCount(line) == Cardinality({i \in 1..Len(line) : line[i] = SP}) + 1
FirstToken(line) ==
  IF IndexOf(line, <<SP>>) < 0 THEN line ELSE Slice(line, 0, IndexOf(line, <<SP>>))
BadRequestLine(line) == TokenCount(line) # 3 \/ FirstToken(line) \notin validMethods

\* C23: when the buffer holds a header block whose request line has not
\* exactly three tokens separated by single spaces, or whose method is not
\* one of the nine known methods, cutMessage throws HTTPError 400: no request
\* is framed, the buffer is left as it was, handleReq is not called, and the
\* catch block answers 400; a request reaches the handler only with a known
\* method.
C23_BadRequestLine ==
  [][ /\ (pc = "cut" /\ HeaderFramed /\ BadRequestLine(FirstLine)) =>
           /\ pc' = "catch"
           /\ exc' \in {HTTPError(400, mMalformedRequestLine), HTTPError(400, mInvalidMethod)}
           /\ (TokenCount(FirstLine) # 3) = (exc'.msg = mMalformedRequestLine)
           /\ msg' = msg /\ versions' = versions /\ buf' = buf
           /\ res' = res /\ out' = out
      /\ (pc = "catch" /\ exc.kind = "http"
          /\ exc.msg \in {mMalformedRequestLine, mInvalidMethod}) =>
           /\ res'.code = 400 /\ errResponses' = 1
      /\ pc' = "haveReq" =>
           /\ pc = "cut" /\ ~BadRequestLine(FirstLine)
           /\ msg'.method \in validMethods ]_vars

\* a request line of two tokens was refused after a request was served
C23_Witness ==
  /\ pc = "catch" /\ exc = HTTPError(400, mMalformedRequestLine)
  /\ served = 1 /\ Len(versions) = 1 /\ TokenCount(FirstLine) = 2

(***************************************************************************)
(* The responses of the handler.                                           *)
(***************************************************************************)
\* the Content-Length the request declares, and the bytes of its body on
\* the wire
DeclaredLength(req) == parseDec(fieldGet(req.headers, sContentLength).val).val
RequestBodyBytes(req) == SubSeq(wire, bodyEnd - DeclaredLength(req) + 1, bodyEnd)

\* C24: when writeHTTPResp has returned for a request that handleReq
\* answered, the bytes written for it are the header of a 200 response with
\* the Server line and one Content-Length line, then the body: for the
\* target "/echo" of a request with Content-Length N the N bytes of the
\* request body and Content-Length N, for any other target
\* "hello world.\n" and its length 13.
C24_EchoOrDefault ==
  (pc = "afterResp" /\ ~inCatch) =>
    LET body == IF msg.uri = sEcho THEN RequestBodyBytes(msg) ELSE sHelloWorld
    IN /\ msg.uri = sEcho => Len(body) = DeclaredLength(msg)
       /\ RespHeader = encodeHTTPResp(200, <<sServerHeader, ContentLengthHeader(Len(body))>>)
       /\ Flatten(RespChunks) = body

\* the two bytes of an /echo request came back in two chunks
C24_Witness ==
  /\ pc = "afterResp" /\ ~inCatch /\ msg.uri = sEcho
  /\ DeclaredLength(msg) = 2 /\ RespChunks = <<(<<104>>), (<<105>>)>>

(***************************************************************************)
(* The driver's states.                                                    *)
(***************************************************************************)
\* the state of the connection driver: Closing is newConnection's catch and
\* finally blocks and the end of the task
DriverState ==
  CASE inCatch \/ pc \in {"catch", "finally", "done"} -> "Closing"
    [] pc \in {"cut", "readHdr", "awaitHdr"} -> "AwaitHeader"
    [] pc = "haveReq" -> "HaveRequest"
    [] pc \in {"respond", "awaitWr", "bodyRead", "awaitBody", "writeBody", "afterResp"} ->
         "Responding"
    [] pc \in {"drain", "awaitDrain"} -> "KeepAlive"

\* the steps between two different states of the driver
DriverSteps ==
  { <<"AwaitHeader", "HaveRequest">>, <<"HaveRequest", "Responding">>,
    <<"Responding", "KeepAlive">>, <<"KeepAlive", "AwaitHeader">>,
    <<"AwaitHeader", "Closing">>, <<"HaveRequest", "Closing">>,
    <<"Responding", "Closing">>, <<"KeepAlive", "Closing">> }

\* the task's steps follow the driver's states; a request is framed only
\* when every response before it was written in full; handleReq is called
\* only for the request framed last, which has no response yet; a response
\* is counted as written only when all of its body was written
DriverOrder ==
  /\ pc' # pc => (DriverState' = DriverState \/ <<DriverState, DriverState'>> \in DriverSteps)
  /\ (DriverState = "Responding" /\ DriverState' = "Closing" /\ exc' = exc
      /\ swallowed' = swallowed) =>
        (pc = "afterResp" /\ msg.version = sVersion10)
  /\ (DriverState = "Responding" /\ DriverState' = "KeepAlive") =>
        (pc = "afterResp" /\ msg.version # sVersion10)
  /\ versions' # versions =>
       /\ pc = "cut" /\ pc' = "haveReq"
       /\ Len(versions') = Len(versions) + 1
       /\ served = Len(versions)
       /\ Written
  /\ pc' = "haveReq" => versions' # versions
  /\ (pc = "haveReq" /\ pc' = "respond") =>
       /\ res' = handleReq(msg)
       /\ Len(versions) = served + 1
  /\ (pc' = "respond" /\ ~inCatch') => pc = "haveReq"
  /\ served' # served =>
       /\ pc = "afterResp" /\ served' = Len(versions)
       /\ Flatten(RespChunks) = FullBody

\* C25, as stated: the steps follow the driver's states in their order, and
\* every framed request is passed to handleReq, once.
C25_DriverOrder ==
  [][ DriverOrder /\ (pc = "haveReq" => pc' = "respond") ]_vars

\* C25, amended: the steps follow AwaitHeader -> HaveRequest -> Responding ->
\* (KeepAlive -> AwaitHeader | Closing), with an exit to Closing from every
\* state; handleReq is called at most once per framed request: once when
\* readerFromReq returns a reader, not at all when it throws its HTTPError,
\* which ends the loop; the response to request k is completely written
\* before request k+1 is framed.
C25_DriverOrder_AtMostOnce ==
  [][ /\ DriverOrder
      /\ pc = "haveReq" =>
           \/ pc' = "respond"
           \/ /\ pc' = "catch" /\ exc'.kind = "http" /\ exc'.code \in {400, 501}
              /\ res' = res /\ out' = out /\ served' = served ]_vars

\* the second request of a connection was framed after the first response
C25_Witness ==
  /\ pc = "haveReq" /\ Len(versions) = 2 /\ served = 1
  /\ DriverState = "HaveRequest" /\ Len(out) >= 2 /\ Flatten(RespChunks) = FullBody

(***************************************************************************)
(* The reads of the adapter and the events.                                *)
(***************************************************************************)
\* the step is a 'data', 'end' or 'error' event
EventStep == sentN' # sentN \/ endEmitted' # endEmitted \/ nErr' # nErr
Settled(p) == p.st \in {"resolved", "rejected"}

\* C26: a socketRead issued by a caller that has no read pending is settled
\* at once when an error is stored or the end was seen, and otherwise
\* becomes the pending read of the slot; the first event after it settles
\* it, once, and clears the slot; a settled read is never settled again: its
\* resolve and reject callbacks are called once in all, and its outcome
\* stays as it is until the caller takes it.
C26_SettledOnce ==
  [][ /\ \A i \in 1..MaxProm :
           /\ prom'[i].n <= 1
           /\ prom'[i].st = "pending" => reader' = i
           /\ Settled(prom[i]) => (prom'[i] = prom[i] \/ prom'[i] = FreeProm)
           /\ (Settled(prom'[i]) /\ ~Settled(prom[i])) => prom'[i].n = 1
      /\ readCalls' # readCalls =>
           /\ prom[lastId'].st = "free"
           /\ IF err # "none" THEN prom'[lastId'] = Reject(Pending, err)
              ELSE IF ended THEN prom'[lastId'] = Resolve(Pending, <<>>)
              ELSE prom'[lastId'] = Pending /\ reader' = lastId'
      /\ (EventStep /\ reader # 0) =>
           /\ prom[reader].st = "pending"
           /\ Settled(prom'[reader])
           /\ reader' = 0
           /\ \A i \in 1..MaxProm : i # reader => prom'[i] = prom[i]
      /\ (EventStep /\ reader = 0) => prom' = prom ]_vars

\* one read was settled by a 'data' event after it was issued and is not
\* taken yet, a later 'error' event found the slot empty, and the next read
\* was rejected at once
C26_Witness ==
  /\ pc = "caller" /\ reader = 0 /\ nErr = 1
  /\ prom[1].st = "resolved" /\ prom[1].d # <<>> /\ prom[1].n = 1
  /\ prom[2].st = "rejected" /\ prom[2].n = 1

\* C27: the 'data' handler never runs with conn.reader null: every 'data'
\* event finds a pending read in the slot, also when an 'end' or 'error'
\* event has cleared the slot and left the socket resumed, because the task
\* then runs to socket.destroy() or, after 'end', no 'data' event follows.
C27_DataFindsReader ==
  [][ /\ ~crashed'
      /\ sentN' # sentN =>
           /\ reader # 0 /\ prom[reader].st = "pending"
           /\ flowing /\ ~flowing'
      /\ (reader = 0 /\ flowing /\ ~destroyed) =>
           (err # "none" \/ ended) ]_vars

\* an 'end' event cleared the slot of a resumed socket after one 'data' event;
\* the task is suspended in the write of its error response, the socket is
\* still resumed and the peer's bytes were not all delivered
C27_Witness ==
  /\ reader = 0 /\ flowing /\ ended /\ ~destroyed /\ ~crashed
  /\ pc = "awaitWr" /\ inCatch /\ wr = "pending"
  /\ sentN > 0 /\ sentN < Len(wire)

\* C28: an HTTPError is never thrown inside writeHTTPResp, between the
\* write of a header and the end of the body; so
\* the catch block begins its error response only when nothing was written
\* on the connection or the latest response was written with all of its
\* body, and the header of the error response follows those bytes.
C28_ErrorAtBoundary ==
  [][ /\ (exc'.kind = "http" /\ exc' # exc) =>
           /\ ~Writing /\ pc # "respond" /\ wr = "none"
      /\ (pc = "catch" /\ pc' = "respond") =>
           /\ exc.kind = "http" /\ wr = "none"
           /\ \/ out = <<>>
              \/ /\ served >= 1 /\ Len(out) > respAt
                 /\ Flatten(RespChunks) = FullBody
      /\ (pc = "respond" /\ inCatch /\ out' # out) =>
           /\ out' = Append(out, encodeHTTPResp(exc.code, res'.headers))
           /\ respAt' = Len(out) ]_vars

\* the catch block begins a 400 response after two complete responses
C28_Witness ==
  /\ pc = "respond" /\ inCatch /\ exc = HTTPError(400, mInvalidMethod)
  /\ served = 2 /\ Len(out) >= 4 /\ Flatten(RespChunks) = sHelloWorld

(***************************************************************************)
(* The written header, read back as a peer reads it.                       *)
(***************************************************************************)
\* the header lines of an encoded response header (without the status line
\* and the blank line), the Content-Length lines among them, and the number
\* the first of them declares
WrittenHeaderLines(h) == LET lines == splitLines(h) IN SubSeq(lines, 2, Len(lines) - 1)
IsContentLengthLine(l) ==
  /\ IndexOf(l, <<COLON>>) >= 0
  /\ ToLower(Trim(Slice(l, 0, IndexOf(l, <<COLON>>)))) = ToLower(sContentLength)
ContentLengthLines(h) ==
  {i \in 1..Len(WrittenHeaderLines(h)) : IsContentLengthLine(WrittenHeaderLines(h)[i])}
WrittenLength(h) == parseDec(fieldGet(WrittenHeaderLines(h), sContentLength).val)

\* writeHTTPResp has returned normally, in serveClient or in the catch block
ResponseCompleted ==
  \/ pc = "afterResp"
  \/ pc = "finally" /\ inCatch /\ swallowed.kind = "none"

\* C29: when writeHTTPResp has returned, the header it wrote holds exactly
\* one Content-Length line, its value is a number, and the body bytes written
\* after the header are as many as that number; so for the default body,
\* for the body of an error response and for the echoed request body.
C29_LengthMatchesBody ==
  ResponseCompleted =>
    /\ Len(out) > respAt
    /\ Cardinality(ContentLengthLines(RespHeader)) = 1
    /\ ~WrittenLength(RespHeader).nan
    /\ WrittenLength(RespHeader).val = Len(Flatten(RespChunks))

\* an echoed body of two bytes was written in one chunk after a header that
\* declares 2
C29_Witness ==
  /\ pc = "afterResp" /\ res.bodyIs = "req"
  /\ Len(RespChunks) = 1 /\ Len(RespChunks[1]) = 2
  /\ WrittenLength(RespHeader).val = 2

(***************************************************************************)
(* The promise-based listener: socketListen, soAccept, handleConnections.  *)
(***************************************************************************)
\* how many 'connection' events the server emits at most
MaxConns == 4
\* how many soAccept calls are made at most
MaxAccepts == 4

\* mutant: the oldest entry stays, the newest is taken (pop)
Shift_Pop(q) == [item |-> q[Len(q)], rest |-> SubSeq(q, 1, Len(q) - 1)]
\* Array.prototype.shift: the first entry and the entries left
Shift(q) == [item |-> Head(q), rest |-> Tail(q)]

\* the listener alone: startServer has called socketListen
InitListen == InitCommon /\ wire \in AdapterWires /\ pc = "listen"

\* the continuation of handleConnections is due: it runs before the event
\* loop delivers the next 'connection' event
HcReady == hcAwait # 0 /\ accepted[hcAwait] # 0

\* server.on("connection"): the connection goes to the oldest waiting
\* accept, or into the queue
OnConnection ==
  /\ pc = "listen" /\ arrived < MaxConns /\ ~HcReady
  /\ arrived' = arrived + 1
  /\ LET conn == arrived + 1
     IN IF Len(listener.waitingAccepts) > 0
        THEN LET s == Shift(listener.waitingAccepts)
             IN /\ listener' = [listener EXCEPT !.waitingAccepts = s.rest]
                /\ accepted' = [accepted EXCEPT ![s.item] = conn]
                /\ handed' = Append(handed, <<s.item, conn>>)
        ELSE /\ listener' = [listener EXCEPT !.connectionQueue = Append(@, conn)]
             /\ UNCHANGED <<accepted, handed>>
  /\ UNCHANGED <<hcAwait, clients, serveVars>>
  /\ UNCHANGED echoVars

\* soAccept(listener), the call number Len(accepted) + 1: its promise is
\* resolved at once with the oldest queued connection, or its resolve
\* function waits
soAccept ==
  LET id == Len(accepted) + 1
  IN IF Len(listener.connectionQueue) > 0
     THEN LET s == Shift(listener.connectionQueue)
          IN /\ listener' = [listener EXCEPT !.connectionQueue = s.rest]
             /\ accepted' = Append(accepted, s.item)
             /\ handed' = Append(handed, <<id, s.item>>)
     ELSE /\ listener' = [listener EXCEPT !.waitingAccepts = Append(@, id)]
          /\ accepted' = Append(accepted, 0)
          /\ UNCHANGED handed

\* handleConnections: its first soAccept, or the continuation of its await,
\* which starts serveClient for the connection and calls soAccept again
HandleConnections ==
  /\ pc = "listen" /\ Len(accepted) < MaxAccepts
  /\ hcAwait = 0 \/ HcReady
  /\ clients' = IF hcAwait = 0 THEN clients ELSE Append(clients, accepted[hcAwait])
  /\ soAccept
  /\ hcAwait' = Len(accepted) + 1
  /\ UNCHANGED <<arrived, serveVars>>
  /\ UNCHANGED echoVars

\* soAccept called by another task
OtherAccept ==
  /\ pc = "listen" /\ Len(accepted) < MaxAccepts
  /\ soAccept
  /\ UNCHANGED <<arrived, hcAwait, clients, serveVars>>
  /\ UNCHANGED echoVars

NextListen == OnConnection \/ HandleConnections \/ OtherAccept

SpecListen == InitListen /\ [][NextListen]_vars

\* the connections and the soAccept calls of a sequence of pairs
Calls(h) == [k \in 1..Len(h) |-> h[k][1]]
Conns(h) == [k \in 1..Len(h) |-> h[k][2]]
Range(f) == {f[k] : k \in DOMAIN f}

\* C30: connectionQueue and waitingAccepts are never both non-empty; every
\* connection that has arrived is either in the queue or was handed to
\* exactly one soAccept call, and every call got at most one connection;
\* connections are handed out in the order of their arrival, to the calls in
\* the order of the calls: the k-th resolve hands the k-th connection to the
\* k-th call.
C30_ListenerFIFO ==
  /\ listener.connectionQueue = <<>> \/ listener.waitingAccepts = <<>>
  /\ \A k \in 1..Len(handed) : handed[k] = <<k, k>>
  /\ listener.connectionQueue = [k \in 1..(arrived - Len(handed)) |-> Len(handed) + k]
  /\ listener.waitingAccepts = [k \in 1..(Len(accepted) - Len(handed)) |-> Len(handed) + k]
  /\ \A a \in 1..Len(accepted) :
       accepted[a] = IF a <= Len(handed) THEN Conns(handed)[a] ELSE 0
  /\ Cardinality(Range(Conns(handed))) = Len(handed)
  /\ \A k \in 1..Len(clients) : clients[k] \in Range(Conns(handed))

\* two connections were queued before any accept, two accepts took them in
\* order, two more accepts wait, and a connection then went to the older one
C30_Witness ==
  /\ pc = "listen" /\ arrived = 3 /\ Len(accepted) = 4
  /\ handed = << <<1, 1>>, <<2, 2>>, <<3, 3>> >>
  /\ listener.waitingAccepts = <<4>> /\ listener.connectionQueue = <<>>

(***************************************************************************)
(* The line-echo server: cutMessage and serveClient of                     *)
(* echo_server-promises.ts, on the same adapter and buffer.                *)
(***************************************************************************)
\* 'Quit'
sQuit == <<81, 117, 105, 116>>
\* 'Bye.\n'
sBye == <<66, 121, 101, 46, 10>>
\* 'Echo: '
sEchoPrefix == <<69, 99, 104, 111, 58, 32>>

\* the byte streams of the peers of the line-echo server
EchoWires ==
  { \* 'hi\nQuit\nxx\n'
    <<104, 105, 10, 81, 117, 105, 116, 10, 120, 120, 10>>,
    \* 'a\n Quit \r\nb'
    <<97, 10, 32, 81, 117, 105, 116, 32, 13, 10, 98>>,
    \* 'a\n\nbc'
    <<97, 10, 10, 98, 99>>,
    \* 'Quit'
    <<81, 117, 105, 116>>,
    \* 'quit\nQuitx\n'
    <<113, 117, 105, 116, 10, 81, 117, 105, 116, 120, 10>> }

\* cutMessage of the line-echo server: found is FALSE for null; msg is the
\* line with its '\n', buf the buffer afterwards
echoCutMessage(b) ==
  LET idx == IndexOf(Content(b), <<LF>>)
  IN IF idx < 0 THEN [found |-> FALSE, msg |-> <<>>, buf |-> b]
     ELSE [found |-> TRUE, msg |-> Slice(b.data, 0, idx + 1), buf |-> bufPop(b, idx + 1)]

\* mutant: the message is compared without trim()
IsQuit_NoTrim(m) == m = sQuit
\* msg.toString().trim() === "Quit" (line 178)
IsQuit(m) == Trim(m) = sQuit

\* the reply to a message that is not Quit (line 182)
EchoReply(m) == sEchoPrefix \o m

\* socketWrite(conn, data) followed by its await, in the try block: a
\* rejection is caught on line 186
EchoWrite(data, next) ==
  IF err # "none"
  THEN /\ pc' = "echoFinally" /\ exc' = TransportError(err)
       /\ UNCHANGED writeVars
  ELSE /\ out' = Append(out, data)
       /\ wr' = "pending"
       /\ pc' = next
       /\ UNCHANGED <<wrErr, exc>>

\* serveClient has called socketInit and made its buffer
InitEcho == InitCommon /\ wire \in EchoWires /\ pc = "echoCut"

\* lines 165-184, up to the await
EchoCut ==
  /\ Running("echoCut")
  /\ LET r == echoCutMessage(buf)
     IN IF ~r.found
        THEN /\ SocketRead(1)
             /\ pc' = "echoAwaitRead"
             /\ UNCHANGED <<buf, exc, writeVars>>
        ELSE /\ buf' = r.buf
             /\ IF IsQuit(r.msg)
                THEN EchoWrite(sBye, "echoAwaitBye")
                ELSE EchoWrite(EchoReply(r.msg), "echoAwaitWr")
             /\ UNCHANGED <<prom, reader, flowing, readCalls, lastId, doubleRead,
                            emptyReads, dataSinceRead>>
  /\ UNCHANGED <<err, ended, destroyed, crashed, wire, sentN, endEmitted, nErr, lastErr,
                 msg, reqBody, res, memBody, chunk, inCatch, swallowed, versions, bodyEnd,
                 errResponses, outAtCatch, served, respAt, ref>>
  /\ UNCHANGED <<lsnVars, echoVars>>

\* lines 168-174: the read has settled
EchoReadResume ==
  /\ Running("echoAwaitRead")
  /\ prom[1].st \in {"resolved", "rejected"}
  /\ prom' = [prom EXCEPT ![1] = FreeProm]
  /\ IF prom[1].st = "rejected"
     THEN pc' = "echoFinally" /\ exc' = TransportError(prom[1].e) /\ UNCHANGED buf
     ELSE IF Len(prom[1].d) = 0
     THEN pc' = "echoFinally" /\ UNCHANGED <<buf, exc>>
     ELSE pc' = "echoCut" /\ buf' = bufPush(buf, prom[1].d) /\ UNCHANGED exc
  /\ UNCHANGED <<connVars, sockVars, writeVars, msg, reqBody, res, memBody, chunk,
                 inCatch, swallowed, obsVars, lsnVars, echoVars>>

\* line 183: the write of an echo has settled
EchoWrResume ==
  /\ Running("echoAwaitWr")
  /\ wr \in {"ok", "failed"}
  /\ wr' = "none" /\ wrErr' = "none"
  /\ IF wr = "failed"
     THEN pc' = "echoFinally" /\ exc' = TransportError(wrErr)
     ELSE pc' = "echoCut" /\ UNCHANGED exc
  /\ UNCHANGED <<connVars, sockVars, out, prom, buf, msg, reqBody, res, memBody, chunk,
                 inCatch, swallowed, obsVars, lsnVars, echoVars>>

\* lines 179-180: the write of "Bye.\n" has settled
EchoByeResume ==
  /\ Running("echoAwaitBye")
  /\ wr \in {"ok", "failed"}
  /\ wr' = "none" /\ wrErr' = "none"
  /\ pc' = "echoFinally"
  /\ exc' = IF wr = "failed" THEN TransportError(wrErr) ELSE exc
  /\ UNCHANGED <<connVars, sockVars, out, prom, buf, msg, reqBody, res, memBody, chunk,
                 inCatch, swallowed, obsVars, lsnVars, echoVars>>

\* lines 188-191: socket.end()
EchoFinally ==
  /\ Running("echoFinally")
  /\ endCalled' = TRUE
  /\ pc' = "echoDone"
  /\ UNCHANGED <<connVars, sockVars, writeVars, prom, buf, msg, reqBody, res, memBody,
                 chunk, exc, inCatch, swallowed, obsVars, lsnVars>>

NextEcho ==
  \/ EchoCut \/ EchoReadResume \/ EchoWrResume \/ EchoByeResume \/ EchoFinally
  \/ OnData \/ OnEnd \/ OnError \/ WriteDone \/ WriteFail

SpecEcho == InitEcho /\ [][NextEcho]_vars

\* what the line-echo server has to write for the bytes s: an echo of every
\* complete line before the first line that is "Quit" between white space,
\* then "Bye.\n" for that line, and nothing for what follows it or for an
\* incomplete last line
RECURSIVE EchoReplies(_)
EchoReplies(s) ==
  LET lf == {i \in 1..Len(s) : s[i] = LF}
  IN IF lf = {} THEN <<>>
     ELSE LET n == CHOOSE i \in lf : \A j \in lf : i <= j
              line == SubSeq(s, 1, n)
              quit == \E a \in 0..(n - Len(sQuit)) :
                        /\ SubSeq(line, a + 1, a + Len(sQuit)) = sQuit
                        /\ \A i \in 1..n :
                             i \in (a + 1)..(a + Len(sQuit)) \/ IsSpace(line[i])
          IN IF quit THEN <<sBye>>
             ELSE <<sEchoPrefix \o line>> \o EchoReplies(SubSeq(s, n + 1, Len(s)))

\* the bytes the 'data' events have delivered
Delivered == SubSeq(wire, 1, sentN)

\* C31: whatever the sizes of the chunks, the writes of the line-echo server
\* are at every moment the first of the replies its input calls for, in
\* order: "Echo: " and the line for each complete line before the first
\* "Quit" line, then "Bye.\n"; when serveClient ends without an error, they
\* are all the replies to the bytes delivered, so nothing was written for
\* lines after "Quit" or for an incomplete last line; the task ends only
\* through the finally block, with socket.end() called, after a clean end of
\* the stream, the write of "Bye.\n" or an error, and writes nothing more.
C31_EchoLines ==
  [][ /\ IsPrefix(out', EchoReplies(wire))
      /\ IsPrefix(out', EchoReplies(Delivered'))
      /\ (pc' = "echoDone" /\ exc'.kind = "none") =>
           /\ out' = EchoReplies(Delivered')
           /\ ended' \/ (out' # <<>> /\ Last(out') = sBye)
      /\ pc' = "echoDone" => (endCalled' /\ pc \in {"echoFinally", "echoDone"})
      /\ endCalled' => pc' = "echoDone"
      /\ pc' = "echoFinally" =>
           \/ exc'.kind = "transport"
           \/ ended' /\ pc \in {"echoAwaitRead", "echoFinally"}
           \/ out' # <<>> /\ Last(out') = sBye /\ pc \in {"echoAwaitBye", "echoFinally"}
      /\ pc = "echoDone" => out' = out ]_vars

\* the peer sent 'hi\nQuit\nxx\n', all of it was delivered, the second line
\* in two chunks, and the task ended with one echo and "Bye.\n" written
C31_Witness ==
  /\ pc = "echoDone" /\ endCalled /\ exc.kind = "none"
  /\ wire = <<104, 105, LF>> \o sQuit \o <<LF, 120, 120, LF>> /\ sentN = Len(wire)
  /\ out = <<sEchoPrefix \o <<104, 105, LF>>, sBye>>
====
